---------------------------- MODULE Spec2Model ----------------------------
(***************************************************************************)
(* Model of the Hardstop event -> alert pipeline:                          *)
(*   - the raw-item store (sentinel/database/raw_item_repo.py),            *)
(*   - the quality-capped classification and the correlated alert upsert   *)
(*     of build_basic_alert (hardstop/alerts/alert_builder.py),            *)
(*   - the correlation key.                                                *)
(* Confidences are percentages (0.55 is 55), times are whole hours, ids    *)
(* are strings of character codes compared lexicographically.              *)
(***************************************************************************)
EXTENDS Integers, Sequences, FiniteSets, TLC

VARIABLES
    raw_items,      \* the raw_items table: a set of rows
    next_raw,       \* number of raw ids handed out so far
    saved,          \* what the last save_raw_item call was given and returned
    wpc,            \* two-writer model: each writer's position in save_raw_item
    wreq,           \* two-writer model: the (source, candidate) each writer saves
    wfound,         \* two-writer model: the row each writer's lookup returned
    alerts,         \* the alerts table: alert_id -> row
    next_alert,     \* number of alert ids generated so far (new_alert_id)
    now,            \* the clock, in hours
    built,          \* the alert the last build_basic_alert call returned
    correlated,     \* history: alert_id -> number of ingests that returned it
    cin,            \* classification model: the event and configuration drawn
    cout,           \* classification model: the result computed for cin
    kin,            \* correlation-key model: the two events drawn
    kout,           \* correlation-key model: the keys computed for kin
    events,         \* the events table: a set of rows
    next_event,     \* number of event ids generated so far (new_event_id)
    runs,           \* number of ingest runs started so far
    no_suppress,    \* ingest: the no_suppress argument of the run under way
    ipc,            \* ingest: position of main() in its loop
    batch,          \* ingest: raw ids of the batch still to process, in order
    cur,            \* ingest: the item being processed and its event
    stats,          \* ingest: the counters main() returns
    fetched,        \* history: the rows get_raw_items_for_ingest returned
    trail,          \* history: raw_id -> statuses written to it in this run
    outcome,        \* history: raw_id -> what build_basic_alert did in this run
    errored,        \* history: raw ids whose processing raised in this run
    isolated,       \* history: the alerts of this run without its failing items
    settled,        \* history: how the last completed run left the store
    fin,            \* pure-function models: the input drawn
    fout            \* pure-function models: the result computed for fin

rawVars   == <<raw_items, next_raw, saved>>
concVars  == <<wpc, wreq, wfound>>
alertVars == <<alerts, next_alert, now, built, correlated>>
classVars == <<cin, cout>>
keyVars   == <<kin, kout>>
ingestVars == <<events, next_event, runs, no_suppress, ipc, batch, cur, stats, fetched, trail, outcome, errored, isolated, settled>>
funVars   == <<fin, fout>>
vars      == <<rawVars, concVars, alertVars, classVars, keyVars, ingestVars, funVars>>

None == [none |-> TRUE]

Min(a, b) == IF a <= b THEN a ELSE b
Max(a, b) == IF a >= b THEN a ELSE b
BoolInt(b) == IF b THEN 1 ELSE 0
Range(s) == {s[i] : i \in 1..Len(s)}

-----------------------------------------------------------------------------
(* Identifiers: strings of character codes, ordered as Python orders str.  *)

\* a < b for two strings, character by character, a proper prefix first
RECURSIVE LexLess(_, _)
LexLess(a, b) ==
    IF b = <<>> THEN FALSE
    ELSE IF a = <<>> THEN TRUE
    ELSE IF Head(a) # Head(b) THEN Head(a) < Head(b)
    ELSE LexLess(Tail(a), Tail(b))

\* the minimum with shorter strings first, as numbers are ordered
ShortestMin(S) ==
    CHOOSE x \in S : \A y \in S :
        \/ x = y
        \/ Len(x) < Len(y)
        \/ Len(x) = Len(y) /\ LexLess(x, y)

\* min(...) of a non-empty set of strings
LexMin(S) == CHOOSE x \in S : \A y \in S : x = y \/ LexLess(x, y)

\* Facility, lane and shipment ids.  "10" sorts before "2": the order is not numeric.
FacilityIds == {<<1, 0>>, <<2>>}
LaneIds     == {<<1>>, <<1, 0>>}
ShipmentIds == {<<5>>}

-----------------------------------------------------------------------------
(* Classification: score class, quality cap and source floor.              *)

MinConfClass1 == 50
MinConfClass2 == 70
MinConfAmbig  == 50
StrongLaneConf     == 70
StrongShipmentConf == 60
VeryHighImpact     == 6
SingleFactorImpact == 5

\* a lookup that takes a missing confidence for full confidence
ConfGetDefaultOne(event, channel) ==
    IF channel \in DOMAIN event.link_confidence
    THEN event.link_confidence[channel] ELSE 100

\* dict.get(key, 0.0) on the event's link_confidence, itself defaulting to {}
ConfGet(event, channel) ==
    IF channel \in DOMAIN event.link_confidence
    THEN event.link_confidence[channel] ELSE 0

\* a mapping that asks for more than 4 points for class 2
map_score_above_four(impact_score) ==
    IF impact_score > 4 THEN 2
    ELSE IF impact_score >= 2 THEN 1
    ELSE 0

map_score_to_classification(impact_score) ==
    IF impact_score >= 4 THEN 2
    ELSE IF impact_score >= 2 THEN 1
    ELSE 0

\* the count of high-impact factors: three breakdown lines and the keyword
high_impact_factors(event, breakdown) ==
    BoolInt(breakdown.criticality) + BoolInt(breakdown.volume)
        + BoolInt(breakdown.priority) + BoolInt(event.keyword)

\* the evidence count without the "very high impact score" signal
compensating_evidence_without_score(event, impact_score, trust_tier) ==
    BoolInt(trust_tier = 3)
    + BoolInt(event.keyword)
    + BoolInt(event.lanes # <<>> /\ ConfGet(event, "lanes") >= StrongLaneConf)
    + BoolInt(event.shipments # <<>> /\ ConfGet(event, "shipments") >= StrongShipmentConf)
    + BoolInt(Len(event.facilities) > 1)

\* the compensating evidence of an ambiguous facility match
compensating_evidence(event, impact_score, trust_tier) ==
    BoolInt(trust_tier = 3)
    + BoolInt(event.keyword)
    + BoolInt(event.lanes # <<>> /\ ConfGet(event, "lanes") >= StrongLaneConf)
    + BoolInt(event.shipments # <<>> /\ ConfGet(event, "shipments") >= StrongShipmentConf)
    + BoolInt(Len(event.facilities) > 1)
    + BoolInt(impact_score >= VeryHighImpact)

\* a cap read off the facility confidence alone
cap_by_confidence_alone(event, impact_score, breakdown, trust_tier) ==
    [max_class |-> IF event.facilities = <<>> THEN 0
                   ELSE IF ConfGet(event, "facility") >= MinConfClass2 THEN 2
                   ELSE IF ConfGet(event, "facility") >= MinConfClass1 THEN 1
                   ELSE 0,
     reasoning |-> <<"Facility confidence">>,
     high_impact_factors |-> high_impact_factors(event, breakdown)]

\* a cap that lets a high-impact keyword from a trusted source lift an event
\* to class 1 whatever its links
keyword_lifts_cap(event, impact_score, breakdown, trust_tier) ==
    [max_class |-> IF event.keyword /\ trust_tier >= 2 THEN 1 ELSE 0,
     reasoning |-> <<IF event.keyword /\ trust_tier >= 2
                     THEN "High-impact keyword from trusted source"
                     ELSE "No network links found">>,
     high_impact_factors |-> high_impact_factors(event, breakdown)]

\* (max_allowed_classification, reasoning, high_impact_factors_count)
compute_max_allowed_classification(event, impact_score, breakdown, trust_tier) ==
    LET facility_conf == ConfGet(event, "facility")
        hif == high_impact_factors(event, breakdown)
        comp == compensating_evidence(event, impact_score, trust_tier)
        R(c, why) == [max_class |-> c, reasoning |-> <<why>>, high_impact_factors |-> hif]
    IN  IF event.facilities = <<>> THEN
            IF event.keyword /\ trust_tier >= 2
            THEN R(0, "No network links found; high-impact keyword")
            ELSE R(0, "No network links found")
        ELSE IF event.facility_provenance = "CITY_STATE_AMBIGUOUS" THEN
            IF facility_conf < MinConfAmbig
            THEN R(0, "Ambiguous facility match without sufficient evidence")
            ELSE IF comp >= 3 THEN R(1, "Ambiguous facility match compensated")
            ELSE IF comp >= 2 THEN R(1, "Ambiguous facility match compensated")
            ELSE R(0, "Ambiguous facility match with insufficient compensating factors")
        ELSE IF facility_conf >= MinConfClass2 THEN
            IF hif >= 2 THEN R(2, "High facility confidence with high-impact factors")
            ELSE IF hif = 1 /\ impact_score >= SingleFactorImpact
            THEN R(2, "High facility confidence with single high-impact factor")
            ELSE R(1, "High facility confidence but insufficient high-impact factors")
        ELSE IF facility_conf >= MinConfClass1 THEN
            IF trust_tier = 3 /\ event.keyword
            THEN R(1, "Medium facility confidence compensated")
            ELSE IF trust_tier >= 2 THEN R(1, "Medium facility confidence with trust tier")
            ELSE R(0, "Medium facility confidence but low trust tier")
        ELSE
            IF trust_tier = 3 /\ event.keyword /\ impact_score >= 4
            THEN R(0, "Low facility confidence but strong compensating factors")
            ELSE R(0, "Low facility confidence without sufficient compensating factors")

\* "Apply quality cap": min(classification, max_allowed_class), the cap's
\* reasoning kept only when the cap changed the class
apply_quality_cap(score_class, quality) ==
    LET capped == Min(score_class, quality.max_class)
    IN  [classification |-> capped,
         reasoning |-> IF capped # score_class THEN quality.reasoning ELSE <<>>]

\* the floor step left out: the quality-capped class is final
floor_ignored(after_quality, floor) == after_quality

\* "Apply source policy minimum" when allow_quality_override_floor is true
apply_floor_policy_b(after_quality, floor) ==
    LET raised == Max(after_quality.classification, floor)
    IN  [classification |-> raised,
         reasoning |->
            IF raised = floor /\ after_quality.classification < floor
            THEN Append(after_quality.reasoning, "Source policy minimum (raised from quality-capped)")
            ELSE after_quality.reasoning]

\* "Policy A: floor is final" when allow_quality_override_floor is false
apply_floor_policy_a(after_quality, floor, score_class) ==
    LET raised == Max(after_quality.classification, floor)
    IN  [classification |-> raised,
         reasoning |->
            IF raised # score_class
            THEN Append(after_quality.reasoning, "Source policy minimum enforced (overrides quality cap)")
            ELSE after_quality.reasoning]

\* the classification of build_basic_alert when a session is given
classify_with_session(event, impact_score, breakdown, quality_config) ==
    LET trust_tier == event.trust_tier
        floor == event.classification_floor
        score_class == map_score_to_classification(impact_score)
        quality == compute_max_allowed_classification(event, impact_score, breakdown, trust_tier)
        after_quality == apply_quality_cap(score_class, quality)
        final == IF quality_config.allow_quality_override_floor
                 THEN apply_floor_policy_b(after_quality, floor)
                 ELSE apply_floor_policy_a(after_quality, floor, score_class)
    IN  [classification |-> final.classification,
         reasoning |-> final.reasoning,
         score_class |-> score_class,
         impact_score |-> impact_score,
         max_allowed_classification |-> quality.max_class,
         high_impact_factors_count |-> quality.high_impact_factors,
         applied_policy |-> IF quality_config.allow_quality_override_floor THEN "B" ELSE "A"]

-----------------------------------------------------------------------------
(* The classification model: an event, a scoring result and a quality      *)
(* configuration are drawn, and build_basic_alert classifies the event.    *)

MaxImpactScore == 6

Channels == {"facility", "lanes", "shipments"}

\* link_confidence maps as the linker and the tests build them: any channel may be absent
LinkConfidences ==
    {[ch \in D |-> CASE ch = "facility" -> f [] ch = "lanes" -> 75 [] OTHER -> 60] :
        D \in SUBSET Channels, f \in {45, 55, 75}}

FacilityLists == {<<>>, << <<2>> >>, << <<2>>, <<1, 0>> >>}
LaneLists     == {<<>>, << <<1>> >>}
ShipmentLists == {<<>>, << <<5>> >>}

ClassEvents ==
    [event_type : {"SPILL"},
     keyword : BOOLEAN,
     facilities : FacilityLists,
     lanes : LaneLists,
     shipments : ShipmentLists,
     link_confidence : LinkConfidences,
     facility_provenance : {"CITY_STATE", "CITY_STATE_AMBIGUOUS"},
     trust_tier : {1, 2, 3},
     classification_floor : {0, 1, 2}]

\* what calculate_network_impact_score hands to the classification
Breakdowns ==
    {[criticality |-> c, volume |-> v, priority |-> FALSE] : c, v \in BOOLEAN}

QualityConfigs == [allow_quality_override_floor : BOOLEAN]

ClassInit ==
    /\ cin \in [event : ClassEvents, quality_config : QualityConfigs]
    /\ cout = None

\* build_basic_alert(event, session) up to the classification
ClassifyEvent ==
    /\ cout = None
    /\ \E impact_score \in 0..MaxImpactScore, breakdown \in Breakdowns :
          cout' = classify_with_session(cin.event, impact_score, breakdown, cin.quality_config)
    /\ UNCHANGED cin

-----------------------------------------------------------------------------
(* The raw-item store.                                                     *)

MaxRawItems == 2

Sources == {"SRC-A", "SRC-B"}
SourceTier(source_id) == IF source_id = "SRC-A" THEN "global" ELSE "local"

\* RawItemCandidate; canonical_id "" is a candidate without canonical id
Candidates ==
    [canonical_id : {"", "guid-1"},
     title : {"title"},
     url : {"url"},
     published_at_utc : {""},
     payload : {"payload-1", "payload-2"}]

\* an earlier and a later fetch time
FetchTimes == {1, 2}

\* SHA-256 of the canonical JSON of the candidate's stable projection, taken
\* as collision free: the projection stands for its hash
compute_content_hash(candidate) ==
    <<candidate.canonical_id, candidate.title, candidate.url,
      candidate.published_at_utc, candidate.payload>>

get_dedupe_key(source_id, candidate) ==
    [canonical_id |-> candidate.canonical_id,
     content_hash |-> compute_content_hash(candidate)]

\* a lookup that leaves out the canonical-id query and matches by hash alone
find_existing_by_hash(rows, source_id, candidate) ==
    LET by_hash == {r \in rows : r.source_id = source_id
                                 /\ r.content_hash = compute_content_hash(candidate)}
    IN  IF by_hash # {} THEN by_hash ELSE {None}

\* the rows Query.first() may return for save_raw_item's two lookups, or
\* {None}: by (source_id, canonical_id) when the candidate has a canonical
\* id, and when that finds nothing by (source_id, content_hash)
find_existing(rows, source_id, candidate) ==
    LET key == get_dedupe_key(source_id, candidate)
        by_canonical ==
            IF key.canonical_id # ""
            THEN {r \in rows : r.source_id = source_id /\ r.canonical_id = key.canonical_id}
            ELSE {}
        by_hash ==
            {r \in rows : r.source_id = source_id /\ r.content_hash = key.content_hash}
    IN  IF by_canonical # {} THEN by_canonical
        ELSE IF by_hash # {} THEN by_hash
        ELSE {None}

\* a re-fetch that also puts the row back to NEW
touch_and_reset(rows, existing, fetched_at_utc) ==
    (rows \ {existing}) \cup
    {[existing EXCEPT !.fetched_at_utc = fetched_at_utc, !.status = "NEW"]}

\* "Update fetched_at_utc but keep status"
touch_row(rows, existing, fetched_at_utc) ==
    (rows \ {existing}) \cup {[existing EXCEPT !.fetched_at_utc = fetched_at_utc]}

\* "Create new raw item"
new_raw_item(raw_id, source_id, tier, candidate, fetched_at_utc) ==
    [raw_id |-> raw_id,
     source_id |-> source_id,
     tier |-> tier,
     fetched_at_utc |-> fetched_at_utc,
     published_at_utc |-> candidate.published_at_utc,
     canonical_id |-> candidate.canonical_id,
     url |-> candidate.url,
     title |-> candidate.title,
     raw_payload_json |-> candidate.payload,
     content_hash |-> get_dedupe_key(source_id, candidate).content_hash,
     status |-> "NEW",
     error |-> ""]

\* the constraints of CREATE TABLE raw_items: raw_id is the primary key, the
\* indexes on source_id, canonical_id, content_hash and status are not unique
store_accepts(rows, row) == \A r \in rows : r.raw_id # row.raw_id

\* save_raw_item(session, source_id, tier, candidate, fetched_at_utc) by the
\* one session that writes the store
SaveRawItem(source_id, candidate, fetched_at_utc) ==
    \E existing \in find_existing(raw_items, source_id, candidate) :
        IF existing # None
        THEN /\ raw_items' = touch_row(raw_items, existing, fetched_at_utc)
             /\ saved' = [source_id |-> source_id, candidate |-> candidate,
                          raw_id |-> existing.raw_id, created |-> FALSE]
             /\ UNCHANGED next_raw
        ELSE LET row == new_raw_item(next_raw + 1, source_id, SourceTier(source_id),
                                     candidate, fetched_at_utc)
             IN  /\ next_raw < MaxRawItems
                 /\ store_accepts(raw_items, row)
                 /\ raw_items' = raw_items \cup {row}
                 /\ next_raw' = next_raw + 1
                 /\ saved' = [source_id |-> source_id, candidate |-> candidate,
                              raw_id |-> row.raw_id, created |-> TRUE]

\* a status update that is never written
mark_lost(rows, raw_id, status, error) == rows

\* mark_raw_item_status(session, raw_id, status, error)
mark_status(rows, raw_id, status, error) ==
    {IF r.raw_id = raw_id
     THEN [r EXCEPT !.status = status, !.error = IF error # "" THEN error ELSE @]
     ELSE r : r \in rows}

MarkRawItemStatus(raw_id, status, error) ==
    /\ raw_items' = mark_status(raw_items, raw_id, status, error)
    /\ UNCHANGED <<next_raw, saved>>

\* the status changes ingest makes: NORMALIZED, or FAILED with the error text
StatusMarks == {<<"NORMALIZED", "">>, <<"FAILED", "error">>}

RawInit ==
    /\ raw_items = {}
    /\ next_raw = 0
    /\ saved = None

\* what the sources publish: SRC-A every candidate, SRC-B one item that
\* SRC-A publishes too
Feed ==
    {<<"SRC-A", candidate>> : candidate \in Candidates}
    \cup {<<"SRC-B", candidate>> : candidate \in
              {c \in Candidates : c.canonical_id # "" /\ c.payload = "payload-1"}}

RawSave ==
    \E item \in Feed, fetched_at_utc \in FetchTimes :
        SaveRawItem(item[1], item[2], fetched_at_utc)

RawMark ==
    \E raw_id \in 1..(next_raw + 1), m \in StatusMarks :
        MarkRawItemStatus(raw_id, m[1], m[2])

-----------------------------------------------------------------------------
(* Two writers (the fetcher and another fetcher or ingest session), each   *)
(* with a session of its own, calling save_raw_item on one store.  A       *)
(* writer's lookups read the committed rows; its insert or update is       *)
(* committed by the caller right after save_raw_item returns.              *)

Writers == {1, 2}

ConcInit ==
    /\ raw_items = {}
    /\ next_raw = 0
    /\ saved = None
    /\ wpc = [w \in Writers |-> "lookup"]
    /\ wreq \in [Writers -> [source_id : Sources, candidate : Candidates,
                             fetched_at_utc : {1}]]
    /\ wfound = [w \in Writers |-> None]

\* the two queries of save_raw_item, in writer w's session
WriterLookup(w) ==
    /\ wpc[w] = "lookup"
    /\ \E existing \in find_existing(raw_items, wreq[w].source_id, wreq[w].candidate) :
          wfound' = [wfound EXCEPT ![w] = existing]
    /\ wpc' = [wpc EXCEPT ![w] = "write"]
    /\ UNCHANGED <<raw_items, next_raw, saved, wreq>>

\* "if existing: ... return existing", else session.add(raw_item), then the
\* caller's commit
WriterWrite(w) ==
    /\ wpc[w] = "write"
    /\ IF wfound[w] # None
       THEN /\ raw_items' =
                  {IF r.raw_id = wfound[w].raw_id
                   THEN [r EXCEPT !.fetched_at_utc = wreq[w].fetched_at_utc]
                   ELSE r : r \in raw_items}
            /\ UNCHANGED next_raw
       ELSE LET row == new_raw_item(next_raw + 1, wreq[w].source_id,
                                    SourceTier(wreq[w].source_id),
                                    wreq[w].candidate, wreq[w].fetched_at_utc)
            IN  /\ store_accepts(raw_items, row)
                /\ raw_items' = raw_items \cup {row}
                /\ next_raw' = next_raw + 1
    /\ wpc' = [wpc EXCEPT ![w] = "done"]
    /\ UNCHANGED <<saved, wreq, wfound>>

-----------------------------------------------------------------------------
(* Correlation key.                                                        *)

\* the literal "NONE"
NONE == <<78, 79, 78, 69>>

\* str.upper() on the event types the model draws
upper(s) ==
    CASE s = "spill" -> "SPILL"
      [] s = "strike" -> "STRIKE"
      [] OTHER -> s

\* the inference with the strike keywords tried before "spill"
infer_strike_first(text_words) ==
    IF text_words \cap {"strike", "walkout"} # {} THEN "STRIKE"
    ELSE IF "spill" \in text_words THEN "SPILL"
    ELSE IF text_words \cap {"closure", "closed", "shutdown", "shut down"} # {} THEN "CLOSURE"
    ELSE "GENERAL"

\* the bucket inferred from the lowercased text when event_type is missing;
\* text_words is the set of keywords the text contains
infer_risk_bucket(text_words) ==
    IF "spill" \in text_words THEN "SPILL"
    ELSE IF text_words \cap {"strike", "walkout"} # {} THEN "STRIKE"
    ELSE IF text_words \cap {"closure", "closed", "shutdown", "shut down"} # {} THEN "CLOSURE"
    ELSE "GENERAL"

risk_bucket(event) ==
    IF event.event_type # "" THEN upper(event.event_type)
    ELSE infer_risk_bucket(event.text_words)

\* the first id as listed, without sorting
head_or_none(ids) == IF ids = <<>> THEN NONE ELSE Head(ids)

\* sorted(set(ids))[0], or "NONE" for an empty list
first_or_none(ids) == IF ids = <<>> THEN NONE ELSE LexMin(Range(ids))

\* "{risk_bucket}|{first_facility}|{first_lane}", kept as its three parts
build_correlation_key(event) ==
    <<risk_bucket(event), first_or_none(event.facilities), first_or_none(event.lanes)>>

-----------------------------------------------------------------------------
(* Scope and its merge.                                                    *)

\* a null list item (None, JSON null): no id is the NUL character
NullId == <<0>>

RECURSIVE dedupe_from(_, _, _)
dedupe_from(items, seen, result) ==
    IF items = <<>> THEN result
    ELSE IF Head(items) \in seen \/ Head(items) = NullId
         THEN dedupe_from(Tail(items), seen, result)
         ELSE dedupe_from(Tail(items), seen \cup {Head(items)}, Append(result, Head(items)))

dedupe_preserve_order(items) == dedupe_from(items, {}, <<>>)

\* the scope payload build_basic_alert derives from the event
scope_payload(event) ==
    [facilities |-> event.facilities,
     lanes |-> event.lanes,
     shipments |-> event.shipments,
     shipments_total_linked |->
        IF "shipments_total_linked" \in DOMAIN event
        THEN event.shipments_total_linked ELSE Len(event.shipments),
     shipments_truncated |->
        IF "shipments_truncated" \in DOMAIN event
        THEN event.shipments_truncated ELSE FALSE]

\* a merge that keeps only the incoming scope
replace_scope(existing_scope_json, new_scope) == new_scope

\* _merge_scope(existing_scope_json, new_scope).  The stored JSON is what
\* json.dumps wrote of a scope payload, so json.loads gives that payload back;
\* None stands for a row without scope_json.
merge_scope(existing_scope_json, new_scope) ==
    IF existing_scope_json = None THEN new_scope
    ELSE LET existing_scope == existing_scope_json
         IN  [facilities |->
                 dedupe_preserve_order(existing_scope.facilities \o new_scope.facilities),
              lanes |->
                 dedupe_preserve_order(existing_scope.lanes \o new_scope.lanes),
              shipments |->
                 dedupe_preserve_order(existing_scope.shipments \o new_scope.shipments),
              shipments_total_linked |->
                 Max(existing_scope.shipments_total_linked, new_scope.shipments_total_linked),
              shipments_truncated |->
                 existing_scope.shipments_truncated \/ new_scope.shipments_truncated]

-----------------------------------------------------------------------------
(* The alerts table and the correlated upsert.                             *)

WithinDays  == 7
WindowHours == WithinDays * 24

\* find_recent_alert_by_key(session, key, within_days): the alerts with the
\* key whose last_seen_utc is not before the cutoff, most recent first; the
\* set holds what first() may return, or None
find_recent_alert_by_key(rows, correlation_key, clock) ==
    LET cutoff == clock - WindowHours
        recent == {a \in rows : a.correlation_key = correlation_key
                                /\ a.last_seen_utc >= cutoff}
        latest == {a \in recent : \A b \in recent : b.last_seen_utc <= a.last_seen_utc}
    IN  IF recent = {} THEN {None} ELSE latest

\* upsert_new_alert_row(session, alert_id=..., ...)
upsert_new_alert_row(rows, alert_id, event, classification, correlation_key, impact_score, scope_json, clock) ==
    rows \cup
    {[alert_id |-> alert_id,
      risk_type |-> event.event_type,
      classification |-> classification,
      status |-> "OPEN",
      root_event_id |-> event.event_id,
      correlation_key |-> correlation_key,
      correlation_action |-> "CREATED",
      impact_score |-> impact_score,
      scope_json |-> scope_json,
      trust_tier |-> event.trust_tier,
      first_seen_utc |-> clock,
      last_seen_utc |-> clock,
      update_count |-> 1]}

\* update_existing_alert_row(session, existing_alert, ...)
update_existing_alert_row(rows, existing_alert, event, classification, impact_score, scope_json, clock) ==
    (rows \ {existing_alert}) \cup
    {[existing_alert EXCEPT
        !.classification = classification,
        !.root_event_id = event.event_id,
        !.correlation_action = "UPDATED",
        !.impact_score = impact_score,
        !.scope_json = scope_json,
        !.trust_tier = event.trust_tier,
        !.last_seen_utc = clock,
        !.update_count = @ + 1]}

\* the UPDATED path without its update_existing_alert_row call
correlate_without_update(rows, existing_alert, event, alert_id, classification, impact_score, clock) ==
    LET correlation_key == build_correlation_key(event)
        new_scope == scope_payload(event)
        merged == IF existing_alert # None
                  THEN merge_scope(existing_alert.scope_json, new_scope) ELSE new_scope
        id == IF existing_alert # None THEN existing_alert.alert_id ELSE alert_id
    IN  [rows |-> IF existing_alert # None THEN rows
                  ELSE upsert_new_alert_row(rows, alert_id, event, classification,
                           correlation_key, impact_score, new_scope, clock),
         alert |-> [alert_id |-> id,
                    generated_id |-> alert_id,
                    classification |-> classification,
                    root_event_id |-> event.event_id,
                    scope |-> merged,
                    correlation |-> [key |-> correlation_key,
                                     action |-> IF existing_alert # None
                                                THEN "UPDATED" ELSE "CREATED",
                                     alert_id |-> id]]]

\* the UPDATED path without "alert_id = existing_alert.alert_id"
correlate_keeping_generated_id(rows, existing_alert, event, alert_id, classification, impact_score, clock) ==
    LET correlation_key == build_correlation_key(event)
        new_scope == scope_payload(event)
        merged == IF existing_alert # None
                  THEN merge_scope(existing_alert.scope_json, new_scope) ELSE new_scope
    IN  [rows |-> IF existing_alert # None
                  THEN update_existing_alert_row(rows, existing_alert, event,
                           classification, impact_score, merged, clock)
                  ELSE upsert_new_alert_row(rows, alert_id, event, classification,
                           correlation_key, impact_score, new_scope, clock),
         alert |-> [alert_id |-> alert_id,
                    generated_id |-> alert_id,
                    classification |-> classification,
                    root_event_id |-> event.event_id,
                    scope |-> merged,
                    correlation |-> [key |-> correlation_key,
                                     action |-> IF existing_alert # None
                                                THEN "UPDATED" ELSE "CREATED",
                                     alert_id |-> IF existing_alert # None
                                                  THEN existing_alert.alert_id
                                                  ELSE alert_id]]]

\* the lookup result ignored: every event creates an alert
correlate_always_creates(rows, existing_alert, event, alert_id, classification, impact_score, clock) ==
    LET correlation_key == build_correlation_key(event)
        new_scope == scope_payload(event)
    IN  [rows |-> upsert_new_alert_row(rows, alert_id, event, classification,
                      correlation_key, impact_score, new_scope, clock),
         alert |-> [alert_id |-> alert_id,
                    generated_id |-> alert_id,
                    classification |-> classification,
                    root_event_id |-> event.event_id,
                    scope |-> new_scope,
                    correlation |-> [key |-> correlation_key,
                                     action |-> "CREATED",
                                     alert_id |-> alert_id]]]

\* "if existing_alert: ... else: ..." of build_basic_alert: the rows after
\* the call and the alert handed back.  alert_id is the id new_alert_id()
\* gave at the start of the call.
correlate(rows, existing_alert, event, alert_id, classification, impact_score, clock) ==
    LET correlation_key == build_correlation_key(event)
        new_scope == scope_payload(event)
    IN  IF existing_alert # None
        THEN LET merged == merge_scope(existing_alert.scope_json, new_scope)
             IN  [rows |-> update_existing_alert_row(rows, existing_alert, event,
                               classification, impact_score, merged, clock),
                  alert |-> [alert_id |-> existing_alert.alert_id,
                             generated_id |-> alert_id,
                             classification |-> classification,
                             root_event_id |-> event.event_id,
                             scope |-> merged,
                             correlation |-> [key |-> correlation_key,
                                              action |-> "UPDATED",
                                              alert_id |-> existing_alert.alert_id]]]
        ELSE [rows |-> upsert_new_alert_row(rows, alert_id, event, classification,
                            correlation_key, impact_score, new_scope, clock),
              alert |-> [alert_id |-> alert_id,
                         generated_id |-> alert_id,
                         classification |-> classification,
                         root_event_id |-> event.event_id,
                         scope |-> new_scope,
                         correlation |-> [key |-> correlation_key,
                                          action |-> "CREATED",
                                          alert_id |-> alert_id]]]

\* build_basic_alert(event) without a session: nothing is persisted, and the
\* evidence names no alert (alert ids count from 1, 0 is None)
uncorrelated(event, alert_id) ==
    [alert_id |-> alert_id,
     generated_id |-> alert_id,
     classification |-> IF "severity_guess" \in DOMAIN event THEN event.severity_guess ELSE 1,
     root_event_id |-> event.event_id,
     scope |-> scope_payload(event),
     correlation |-> [key |-> build_correlation_key(event),
                      action |-> "None", alert_id |-> 0]]

-----------------------------------------------------------------------------
(* The alert model: events are handed to build_basic_alert one after the   *)
(* other while the clock advances.                                         *)

MaxIngest == 3

\* the clock readings of the model: an hour apart, and the correlation
\* window later to the hour
Times == {0, 1, WindowHours, WindowHours + 1}

Confident == [facility |-> 75, lanes |-> 75]

AlertEvent(event_id, event_type, facilities, lanes, shipments, floor) ==
    [event_id |-> event_id,
     event_type |-> event_type,
     text_words |-> {},
     keyword |-> TRUE,
     facilities |-> facilities,
     lanes |-> lanes,
     shipments |-> shipments,
     link_confidence |-> Confident,
     facility_provenance |-> "FACILITY_ID_EXACT",
     trust_tier |-> 2,
     classification_floor |-> floor]

\* an event whose linker kept only some of the shipments it found
AlertEventTruncated(event_id, event_type, facilities, lanes, shipments, total) ==
    [event_id |-> event_id,
     event_type |-> event_type,
     text_words |-> {},
     keyword |-> TRUE,
     facilities |-> facilities,
     lanes |-> lanes,
     shipments |-> shipments,
     link_confidence |-> Confident,
     facility_provenance |-> "FACILITY_ID_EXACT",
     trust_tier |-> 2,
     classification_floor |-> 0,
     shipments_total_linked |-> total,
     shipments_truncated |-> TRUE]

\* two events with the key SPILL|2|1, three with SPILL|10|1 (one of them
\* listing the ids in another order), one with STRIKE|NONE|NONE
AlertEvents ==
    {AlertEvent("EVT-1", "SPILL", << <<2>> >>, << <<1>> >>, <<>>, 0),
     AlertEvent("EVT-2", "SPILL", << <<2>> >>, << <<1>>, <<1, 0>> >>, << <<5>> >>, 1),
     AlertEvent("EVT-3", "SPILL", << <<1, 0>> >>, << <<1>> >>, <<>>, 0),
     AlertEvent("EVT-4", "SPILL", << <<2>>, <<1, 0>> >>, << <<1, 0>>, <<1>> >>, << <<5>> >>, 0),
     AlertEventTruncated("EVT-5", "SPILL", << <<1, 0>>, <<2>> >>, << <<1>> >>, << <<5>> >>, 9),
     AlertEvent("EVT-6", "STRIKE", <<>>, <<>>, <<>>, 0)}

\* what calculate_network_impact_score returns for the event
AlertScorings ==
    {[impact_score |-> 5,
      breakdown |-> [criticality |-> TRUE, volume |-> TRUE, priority |-> FALSE]]}

AlertInit ==
    /\ alerts = {}
    /\ next_alert = 0
    /\ now = 0
    /\ built = None
    /\ correlated = [a \in 1..MaxIngest |-> 0]

\* build_basic_alert(event, session): a fresh alert id, the classification,
\* the correlation lookup and the insert or update, committed
BuildBasicAlert(event, scoring, quality_config, session) ==
    LET alert_id == next_alert + 1
    IN  /\ next_alert < MaxIngest
        /\ next_alert' = alert_id
        /\ IF session
           THEN \E existing_alert \in
                      find_recent_alert_by_key(alerts, build_correlation_key(event), now) :
                   LET classification ==
                           classify_with_session(event, scoring.impact_score,
                               scoring.breakdown, quality_config).classification
                       done == correlate(alerts, existing_alert, event, alert_id,
                                         classification, scoring.impact_score, now)
                   IN  /\ alerts' = done.rows
                       /\ built' = done.alert
                       /\ correlated' =
                              [correlated EXCEPT ![done.alert.alert_id] = @ + 1]
           ELSE /\ built' = uncorrelated(event, alert_id)
                /\ UNCHANGED <<alerts, correlated>>
        /\ UNCHANGED now

AlertBuild ==
    \E event \in AlertEvents, scoring \in AlertScorings,
       quality_config \in QualityConfigs, session \in BOOLEAN :
        BuildBasicAlert(event, scoring, quality_config, session)

\* the clock advances
Tick ==
    /\ \E t \in Times : t > now /\ now' = t
    /\ UNCHANGED <<alerts, next_alert, built, correlated>>

-----------------------------------------------------------------------------
(* The correlation key model: two events of the same kind whose facility   *)
(* and lane lists are drawn independently.                                 *)

MaxLen == 2

IdLists(ids) == UNION {[1..n -> ids] : n \in 0..MaxLen}

KeyEvents ==
    [event_type : {"", "spill", "STRIKE"},
     text_words : {{}, {"spill", "strike"}, {"walkout", "shutdown"}, {"closed"}},
     facilities : IdLists(FacilityIds),
     lanes : IdLists(LaneIds)]

KeyInit ==
    /\ kin \in {pair \in KeyEvents \X KeyEvents :
                   /\ pair[1].event_type = pair[2].event_type
                   /\ pair[1].text_words = pair[2].text_words}
    /\ kout = None

\* build_correlation_key is called on the first event, on the first event
\* again, and on the second event
BuildKeys ==
    /\ kout = None
    /\ kout' = [first |-> build_correlation_key(kin[1]),
                again |-> build_correlation_key(kin[1]),
                second |-> build_correlation_key(kin[2])]
    /\ UNCHANGED kin

-----------------------------------------------------------------------------
(* The ingest runner (sentinel/runners/ingest_external.py): the fetcher    *)
(* saves candidates, and main() turns the NEW raw items into events and    *)
(* alerts one after the other.  Runs follow each other in one process; the *)
(* clock stays within one hour.                                            *)

MaxRuns == 2

RawIds == 1..MaxRawItems

\* main(limit=...): None or 0 is no limit
Limits == {0, 1}

IngestSource == "SRC-A"

IngestCandidate(canonical_id, title, payload) ==
    [canonical_id |-> canonical_id,
     title |-> title,
     url |-> "url",
     published_at_utc |-> "",
     payload |-> payload]

\* what the source publishes: two items about one incident, an item without
\* canonical id, and a routine notice that a suppression rule matches.  The
\* payload names the event the item normalizes and links to.
IngestCandidates ==
    {IngestCandidate("guid-1", "title", "EVT-1"),
     IngestCandidate("guid-2", "title", "EVT-2"),
     IngestCandidate("", "title", "EVT-6"),
     IngestCandidate("guid-3", "routine notice", "EVT-3")}

Terminal == {"NORMALIZED", "FAILED", "SUPPRESSED"}

RowOf(rows, raw_id) == CHOOSE r \in rows : r.raw_id = raw_id

StatusOf(rows, raw_id) ==
    IF \E r \in rows : r.raw_id = raw_id THEN RowOf(rows, raw_id).status ELSE ""

\* the orders in which a query may return the rows S
Orderings(S) ==
    {o \in [1..Cardinality(S) -> S] : \A i, j \in 1..Cardinality(S) : o[i] = o[j] => i = j}

\* query.limit(limit) when a limit is given
Take(seq, limit) ==
    IF limit # 0 /\ limit < Len(seq) THEN SubSeq(seq, 1, limit) ELSE seq

\* a batch query without its order_by
get_raw_items_unordered(rows, limit) ==
    {Take(o, limit) : o \in Orderings({r \in rows : r.status = "NEW"})}

\* get_raw_items_for_ingest(session, limit): the NEW rows ordered by
\* fetched_at_utc ascending (rows fetched at the same time in any order),
\* cut to the limit; the set holds what query.all() may return
get_raw_items_for_ingest(rows, limit) ==
    {Take(o, limit) : o \in
        {o \in Orderings({r \in rows : r.status = "NEW"}) :
            \A i, j \in DOMAIN o : i < j => o[i].fetched_at_utc <= o[j].fetched_at_utc}}

\* new_event_id(): an id no event has yet
new_event_id(n) == "EVT-GEN-" \o ToString(n)

\* normalize_external_event(...)["event_id"]: the candidate main() builds has
\* no event_id and no raw_id key, so the id is the canonical id, or a new one
normalized_event_id(row, fresh) ==
    IF row.canonical_id # "" THEN row.canonical_id ELSE fresh

\* normalize_external_event followed by link_event_to_network: the event of
\* the item's payload with its links, under the id normalization gave it
link_event_to_network(row, event_id) ==
    [(CHOOSE e \in AlertEvents : e.event_id = row.raw_payload_json)
        EXCEPT !.event_id = event_id]

\* evaluate_suppression(...).is_suppressed under the one rule of the model
is_suppressed(row) == row.title = "routine notice"

\* mark_raw_item_suppressed(session, raw_id, ...)
mark_suppressed(rows, raw_id) ==
    {IF r.raw_id = raw_id THEN [r EXCEPT !.status = "SUPPRESSED"] ELSE r : r \in rows}

\* a save_event that stores nothing
save_event_dropped(rows, event_id, raw_id, suppressed) == rows

\* a save_event that replaces the stored row by the event given
save_event_overwriting(rows, event_id, raw_id, suppressed) ==
    {e \in rows : e.event_id # event_id}
        \cup {[event_id |-> event_id, raw_id |-> raw_id, suppressed |-> suppressed]}

\* save_event(session, event): the existing row is kept when the event id is
\* already stored
save_event(rows, event_id, raw_id, suppressed) ==
    IF \E e \in rows : e.event_id = event_id THEN rows
    ELSE rows \cup {[event_id |-> event_id, raw_id |-> raw_id, suppressed |-> suppressed]}

\* counters that start from the last value of a finished run
StaleStats == [processed |-> 1, events |-> 1, alerts |-> 1, errors |-> 0, suppressed |-> 0]

ZeroStats == [processed |-> 0, events |-> 0, alerts |-> 0, errors |-> 0, suppressed |-> 0]

\* the statuses written in this run, one more for each row whose status the
\* step changed
TrailAfter(rows) ==
    [id \in RawIds |->
        IF StatusOf(rows, id) # StatusOf(raw_items, id)
        THEN Append(trail[id], StatusOf(rows, id)) ELSE trail[id]]

IngestInit ==
    /\ events = {}
    /\ next_event = 0
    /\ runs = 0
    /\ no_suppress = FALSE
    /\ ipc = "idle"
    /\ batch = <<>>
    /\ cur = None
    /\ stats = ZeroStats
    /\ fetched = <<>>
    /\ trail = [id \in RawIds |-> <<>>]
    /\ outcome = [id \in RawIds |-> None]
    /\ errored = {}
    /\ isolated = {}
    /\ settled = "no"

\* the fetcher saves one candidate between two ingest runs, stamped with the
\* time of the fetch, which is not before any earlier fetch
IngestFetch ==
    /\ ipc \in {"idle", "returned", "cancelled"}
    /\ runs < MaxRuns
    /\ \E candidate \in IngestCandidates, fetched_at_utc \in FetchTimes :
          /\ \A r \in raw_items : r.fetched_at_utc <= fetched_at_utc
          /\ SaveRawItem(IngestSource, candidate, fetched_at_utc)
    /\ settled' = IF saved'.created THEN "no" ELSE settled
    /\ UNCHANGED <<events, next_event, runs, no_suppress, ipc, batch, cur, stats, fetched, trail, outcome, errored, isolated>>
    /\ UNCHANGED alertVars

\* main() up to the loop: the batch query and the zeroed counters.  The
\* no_suppress argument is drawn for the batches it can make a difference
\* to, those with an item a suppression rule matches.
IngestStart ==
    /\ ipc \in {"idle", "returned", "cancelled"}
    /\ runs < MaxRuns
    /\ runs' = runs + 1
    /\ \E limit \in Limits : \E rows \in get_raw_items_for_ingest(raw_items, limit) :
          /\ batch' = [i \in DOMAIN rows |-> rows[i].raw_id]
          /\ fetched' = rows
          /\ no_suppress' \in IF \E i \in DOMAIN rows : is_suppressed(rows[i])
                             THEN BOOLEAN ELSE {FALSE}
    /\ ipc' = "item"
    /\ cur' = None
    /\ stats' = ZeroStats
    /\ trail' = [id \in RawIds |-> <<>>]
    /\ outcome' = [id \in RawIds |-> None]
    /\ errored' = {}
    /\ isolated' = alerts
    /\ UNCHANGED <<events, next_event, settled>>
    /\ UNCHANGED <<rawVars, alertVars>>

\* lines 104-190: the item is normalized; unless no_suppress is given, a
\* suppressed item is marked, its
\* event saved and the item done, any other item has its event committed
IngestNormalize ==
    /\ ipc = "item"
    /\ batch # <<>>
    /\ LET raw_id == Head(batch)
           row == RowOf(raw_items, raw_id)
           event_id == normalized_event_id(row, new_event_id(next_event + 1))
       IN  /\ next_event' = IF row.canonical_id # "" THEN next_event ELSE next_event + 1
           /\ IF ~no_suppress /\ is_suppressed(row)
              THEN /\ raw_items' = mark_suppressed(raw_items, raw_id)
                   /\ events' = save_event(events, event_id, raw_id, TRUE)
                   /\ stats' = [stats EXCEPT !.suppressed = @ + 1, !.events = @ + 1,
                                             !.processed = @ + 1]
                   /\ batch' = Tail(batch)
                   /\ UNCHANGED <<ipc, cur>>
              ELSE /\ events' = save_event(events, event_id, raw_id, FALSE)
                   /\ stats' = [stats EXCEPT !.events = @ + 1]
                   /\ ipc' = "event_saved"
                   /\ cur' = [raw_id |-> raw_id,
                              event |-> link_event_to_network(row, event_id),
                              isolated |-> isolated]
                   /\ UNCHANGED <<raw_items, batch>>
           /\ trail' = TrailAfter(raw_items')
    /\ UNCHANGED <<next_raw, saved, runs, no_suppress, fetched, outcome, errored, isolated, settled>>
    /\ UNCHANGED alertVars

\* what the same build_basic_alert call does to the alerts of this run
\* without its failing items
IsolatedBuild(event, scoring, quality_config) ==
    LET classification ==
            classify_with_session(event, scoring.impact_score,
                scoring.breakdown, quality_config).classification
    IN  {correlate(isolated, existing_alert, event, next_alert + 1,
                   classification, scoring.impact_score, now) :
            existing_alert \in
                find_recent_alert_by_key(isolated, build_correlation_key(event), now)}

\* lines 195-200: build_basic_alert(event, session) returns the alert
IngestBuildAlert ==
    /\ ipc = "event_saved"
    /\ \E scoring \in AlertScorings, quality_config \in QualityConfigs :
          /\ BuildBasicAlert(cur.event, scoring, quality_config, TRUE)
          /\ \E alone \in IsolatedBuild(cur.event, scoring, quality_config) :
                /\ cur' = [cur EXCEPT !.isolated = alone.rows]
                /\ outcome' = [outcome EXCEPT ![cur.raw_id] =
                       [action |-> built'.correlation.action,
                        alert_id |-> built'.alert_id,
                        key |-> built'.correlation.key,
                        order |-> stats.processed + stats.errors + 1,
                        alone |-> alone.alert.correlation.action]]
    /\ stats' = [stats EXCEPT !.alerts = @ + 1]
    /\ ipc' = "alert_built"
    /\ UNCHANGED <<events, next_event, runs, no_suppress, batch, fetched, trail, errored, isolated, settled>>
    /\ UNCHANGED rawVars

\* lines 203-206: the item is marked NORMALIZED and counted
IngestMarkNormalized ==
    /\ ipc = "alert_built"
    /\ raw_items' = mark_status(raw_items, cur.raw_id, "NORMALIZED", "")
    /\ trail' = TrailAfter(raw_items')
    /\ stats' = [stats EXCEPT !.processed = @ + 1]
    /\ isolated' = cur.isolated
    /\ batch' = Tail(batch)
    /\ cur' = None
    /\ ipc' = "item"
    /\ UNCHANGED <<next_raw, saved, events, next_event, runs, no_suppress, fetched, outcome, errored, settled>>
    /\ UNCHANGED alertVars

\* lines 208-218, "except Exception": the rollback undoes what is not yet
\* committed, the item is marked FAILED with the error text unless that
\* fails too (lines 215-217), and errors is counted
HandleException(raw_id) ==
    /\ \E marked \in BOOLEAN :
          raw_items' = IF marked THEN mark_status(raw_items, raw_id, "FAILED", "error")
                       ELSE raw_items
    /\ trail' = TrailAfter(raw_items')
    /\ stats' = [stats EXCEPT !.errors = @ + 1]
    /\ errored' = errored \cup {raw_id}
    /\ batch' = Tail(batch)
    /\ cur' = None
    /\ ipc' = "item"
    /\ UNCHANGED <<next_raw, saved, events, next_event, runs, no_suppress, fetched, outcome, isolated, settled>>

\* a statement of the try block raises: before the event is committed, after
\* it (link_event_to_network, build_basic_alert before its commit), or after
\* build_basic_alert returned (mark_raw_item_status)
IngestRaise ==
    /\ \/ ipc = "item" /\ batch # <<>>
       \/ ipc \in {"event_saved", "alert_built"}
    /\ HandleException(Head(batch))
    /\ UNCHANGED alertVars

\* build_basic_alert commits its insert or update and raises after it
\* (alert_builder.py 623-672: the incident evidence artifact is written
\* after the commit)
IngestBuildAlertRaises ==
    /\ ipc = "event_saved"
    /\ \E scoring \in AlertScorings, quality_config \in QualityConfigs :
          BuildBasicAlert(cur.event, scoring, quality_config, TRUE)
    /\ HandleException(Head(batch))

\* the run is interrupted (KeyboardInterrupt, a cancelled task): it is not an
\* Exception, so nothing in main() catches it; what is committed stays
IngestCancel ==
    /\ ipc \in {"item", "event_saved", "alert_built"}
    /\ ipc' = "cancelled"
    /\ no_suppress' = FALSE
    /\ UNCHANGED <<events, next_event, runs, batch, cur, stats, fetched, trail, outcome, errored, isolated, settled>>
    /\ UNCHANGED <<rawVars, alertVars>>

\* lines 220-226: the loop is over and main() returns the counters
IngestReturn ==
    /\ ipc = "item"
    /\ batch = <<>>
    /\ ipc' = "returned"
    /\ settled' = IF \E r \in raw_items : r.status = "NEW" THEN "returned" ELSE "drained"
    /\ no_suppress' = FALSE
    /\ UNCHANGED <<events, next_event, runs, batch, cur, stats, fetched, trail, outcome, errored, isolated>>
    /\ UNCHANGED <<rawVars, alertVars>>

-----------------------------------------------------------------------------
(* _detect_high_impact_keywords(text).  A text is a sequence of tokens: the *)
(* upper-cased word the regular expressions see between two word           *)
(* boundaries, and the location signal the token carries ("city_state" for *)
(* "Chicago, IL", "facility_id" for "PLANT-01", "date" for "12/01/2024").  *)

MaxWords == 4

Token(word, signal) == [word |-> word, signal |-> signal]

\* the words of the texts drawn; in "PLANT-01" the hyphen is a word boundary,
\* so the patterns see the word PLANT
Tokens ==
    {Token("FIRE", ""), Token("SALE", ""), Token("AT", ""), Token("WAREHOUSE", ""),
     Token("FACILITY", ""), Token("STRIKE", ""), Token("PRICE", ""),
     Token("SPILL", ""), Token("IN", ""), Token("PLANT", "facility_id"), Token("CHICAGO", "city_state")}

Texts == UNION {[1..n -> Tokens] : n \in 1..MaxWords}

SiteNouns == {"PLANT", "FACILITY", "WAREHOUSE", "PORT", "TERMINAL", "REFINERY", "DC"}

\* the eight patterns in the order of the list: the words of the first
\* group, anything, the words of the second group
Patterns ==
    <<[first |-> {"SPILL", "LEAK"}, second |-> SiteNouns, keyword |-> "SPILL"],
      [first |-> SiteNouns, second |-> {"SPILL", "LEAK"}, keyword |-> "SPILL"],
      [first |-> {"STRIKE", "WALKOUT"},
       second |-> SiteNouns \cup {"RAIL", "TRUCK", "CARRIER"}, keyword |-> "STRIKE"],
      [first |-> SiteNouns \cup {"RAIL", "TRUCK", "CARRIER"},
       second |-> {"STRIKE", "WALKOUT"}, keyword |-> "STRIKE"],
      [first |-> {"CLOSURE", "CLOSED", "SHUTDOWN"}, second |-> SiteNouns, keyword |-> "CLOSURE"],
      [first |-> SiteNouns, second |-> {"CLOSURE", "CLOSED", "SHUTDOWN"}, keyword |-> "CLOSURE"],
      [first |-> {"FIRE", "EXPLOSION"}, second |-> SiteNouns, keyword |-> "FIRE"],
      [first |-> SiteNouns, second |-> {"FIRE", "EXPLOSION"}, keyword |-> "FIRE"]>>

\* re.search(pattern, text_upper): r"\b(first)\b.*\b(second)\b"
search(pattern, text) ==
    \E i, j \in DOMAIN text :
        /\ i < j
        /\ text[i].word \in pattern.first
        /\ text[j].word \in pattern.second

\* "for pattern, keywords in patterns: ... matched_patterns.extend(keywords)"
RECURSIVE matched_from(_, _)
matched_from(k, text) ==
    IF k > Len(Patterns) THEN <<>>
    ELSE (IF search(Patterns[k], text) THEN <<Patterns[k].keyword>> ELSE <<>>)
         \o matched_from(k + 1, text)

has_location_signal(text) == \E i \in DOMAIN text : text[i].signal # ""

standalone_keywords == <<"SPILL", "STRIKE", "CLOSURE", "SHUTDOWN", "FIRE", "EXPLOSION">>

\* "for keyword in standalone_keywords: ..." from the k-th keyword on
RECURSIVE standalone_from(_, _, _)
standalone_from(k, text, matched_patterns) ==
    IF k > Len(standalone_keywords) THEN matched_patterns
    ELSE LET keyword == standalone_keywords[k]
             found == /\ \E i \in DOMAIN text : text[i].word = keyword
                      /\ has_location_signal(text)
                      /\ keyword \notin Range(matched_patterns)
         IN  standalone_from(k + 1, text,
                 IF found THEN Append(matched_patterns, keyword) ELSE matched_patterns)

\* _detect_high_impact_keywords(text): (has_high_impact, matched_patterns)
detect_high_impact_keywords(text) ==
    LET matched_patterns == standalone_from(1, text, matched_from(1, text))
    IN  [has_high_impact |-> Len(matched_patterns) > 0,
         matched_patterns |-> matched_patterns]

DetectInit ==
    /\ fin \in Texts
    /\ fout = None

DetectKeywords ==
    /\ fout = None
    /\ fout' = detect_high_impact_keywords(fin)
    /\ UNCHANGED fin

-----------------------------------------------------------------------------
(* calculate_network_impact_score.  The rows the three queries return are  *)
(* given with the event: the criticality scores of its facilities, the     *)
(* volume scores of its lanes, and of its shipments how many ids the event *)
(* lists, how many rows have the priority flag and how many of those have  *)
(* an ETA within 48 hours.                                                 *)

\* the first index of the list whose score is at least 7, or 0: the loops
\* break on the first qualifying row
RECURSIVE first_qualifying(_, _)
first_qualifying(scores, i) ==
    IF i > Len(scores) THEN 0
    ELSE IF scores[i] >= 7 THEN i
    ELSE first_qualifying(scores, i + 1)

\* an event-type check that counts the type and the keyword separately
event_type_points_both(event) ==
    (IF upper(event.event_type) \in {"SPILL", "STRIKE", "CLOSURE"}
     THEN <<"R7">> ELSE <<>>)
    \o (IF event.text_keyword THEN <<"R7">> ELSE <<>>)

\* "if event_type in high_impact_types: ... elif any(keyword in text ...)"
event_type_points(event) ==
    IF upper(event.event_type) \in {"SPILL", "STRIKE", "CLOSURE"} THEN <<"R7">>
    ELSE IF event.text_keyword THEN <<"R7">>
    ELSE <<>>

\* the rules that fire, in the order of the function body
fired_rules(event) ==
    (IF first_qualifying(event.criticality_scores, 1) > 0 THEN <<"R1">> ELSE <<>>)
    \o (IF first_qualifying(event.volume_scores, 1) > 0 THEN <<"R2">> ELSE <<>>)
    \o (IF event.shipment_count > 0 /\ event.priority_count > 0
        THEN <<"R3">>
             \o (IF event.priority_count >= 5 THEN <<"R4">> ELSE <<>>)
             \o (IF event.near_term_count > 0 THEN <<"R5">> ELSE <<>>)
        ELSE <<>>)
    \o (IF event.shipment_count >= 10 THEN <<"R6">> ELSE <<>>)
    \o event_type_points(event)

rule_points(rule) == IF rule = "R1" THEN 2 ELSE 1

RECURSIVE sum_points(_)
sum_points(rules) ==
    IF rules = <<>> THEN 0 ELSE rule_points(Head(rules)) + sum_points(Tail(rules))

tier_bonus(trust_tier) ==
    IF trust_tier = 3 THEN 1 ELSE IF trust_tier = 1 THEN 0 - 1 ELSE 0

clamp(score) == Max(0, Min(10, score))

\* calculate_network_impact_score(event, session, trust_tier, weighting_bias)
calculate_network_impact_score(event, trust_tier, weighting_bias) ==
    LET breakdown == fired_rules(event)
        score == sum_points(breakdown)
    IN  [impact_score |-> clamp(score + weighting_bias + tier_bonus(trust_tier)),
         rule_score |-> score,
         breakdown |-> breakdown]

ScoreLists == {<<>>, <<5>>, <<7>>, <<9, 7>>, <<5, 8>>}

\* the counts of a shipment list: ids listed, priority rows, near-term rows
ShipmentCounts ==
    {c \in [shipment_count : {0, 1, 9, 10}, priority_count : {0, 1, 5}, near_term_count : {0, 1}] :
        c.near_term_count <= c.priority_count /\ c.priority_count <= c.shipment_count}

WeightingBiases == {0 - 2, 0, 2}

ScoreEvents ==
    {[criticality_scores |-> f, volume_scores |-> l,
      shipment_count |-> c.shipment_count, priority_count |-> c.priority_count,
      near_term_count |-> c.near_term_count,
      event_type |-> t, text_keyword |-> k] :
        f \in ScoreLists, l \in ScoreLists, c \in ShipmentCounts,
        t \in {"", "spill", "OTHER"}, k \in BOOLEAN}

ScoreInit ==
    /\ fin \in [event : ScoreEvents, trust_tier : {1, 2, 3}, weighting_bias : WeightingBiases]
    /\ fout = None

\* build_basic_alert's call of the scorer
ScoreEvent ==
    /\ fout = None
    /\ fout' = calculate_network_impact_score(fin.event, fin.trust_tier, fin.weighting_bias)
    /\ UNCHANGED fin

-----------------------------------------------------------------------------
(* get_raw_items_for_ingest with its filters.  An optional argument is the *)
(* empty sequence when it is None and <<v>> when it is given; times are    *)
(* hours.                                                                  *)

MaxQueryRows == 3

Tiers == {"global", "regional", "local"}

\* tier_priority.get(tier, 0)
tier_priority(tier) ==
    CASE tier = "global" -> 3
      [] tier = "regional" -> 2
      [] tier = "local" -> 1
      [] OTHER -> 0

\* "if min_tier:" one filter RawItem.tier != tier for each tier whose
\* priority is below the priority of min_tier
tier_filter(rows, min_tier) ==
    IF min_tier = <<>> \/ min_tier = <<"">> THEN rows
    ELSE {r \in rows : \A tier \in Tiers :
            tier_priority(tier) >= tier_priority(min_tier[1]) \/ r.tier # tier}

\* "if source_id:"
source_filter(rows, source_id) ==
    IF source_id = <<>> \/ source_id = <<"">> THEN rows
    ELSE {r \in rows : r.source_id = source_id[1]}

\* "if since_hours:" fetched within the window, and published within the
\* window or without a published date
since_filter(rows, since_hours, clock) ==
    IF since_hours = <<>> \/ since_hours = <<0>> THEN rows
    ELSE LET cutoff == clock - since_hours[1]
         IN  {r \in rows :
                /\ r.fetched_at_utc >= cutoff
                /\ r.published_at_utc = <<>> \/ r.published_at_utc[1] >= cutoff}

\* the whole query: status NEW, the three filters, the order and "if limit:"
query_raw_items_for_ingest(rows, limit, min_tier, source_id, since_hours, clock) ==
    get_raw_items_for_ingest(
        since_filter(tier_filter(source_filter(rows, source_id), min_tier), since_hours, clock),
        IF limit = <<>> THEN 0 ELSE limit[1])

QueryRow(raw_id, status, tier, source_id, fetched_at_utc, published_at_utc) ==
    [raw_id |-> raw_id, status |-> status, tier |-> tier, source_id |-> source_id,
     fetched_at_utc |-> fetched_at_utc, published_at_utc |-> published_at_utc]

QueryRows ==
    {QueryRow("raw-1", "NEW", "global", "SRC-A", 5, <<>>),
     QueryRow("raw-2", "NEW", "regional", "SRC-B", 6, <<6>>),
     QueryRow("raw-3", "NEW", "local", "SRC-A", 6, <<1>>),
     QueryRow("raw-4", "NORMALIZED", "global", "SRC-A", 7, <<>>),
     QueryRow("raw-5", "NEW", "local", "SRC-B", 2, <<>>),
     QueryRow("raw-6", "FAILED", "regional", "SRC-B", 7, <<7>>)}

QueryNow == 8

QueryInit ==
    /\ fin \in [rows : {S \in SUBSET QueryRows : Cardinality(S) <= MaxQueryRows},
                limit : {<<>>, <<0>>, <<1>>, <<2>>},
                min_tier : {<<>>} \cup {<<t>> : t \in Tiers},
                source_id : {<<>>, <<"SRC-A">>},
                since_hours : {<<>>, <<4>>}]
    /\ fout = None

\* main()'s call of get_raw_items_for_ingest
QueryForIngest ==
    /\ fout = None
    /\ \E result \in query_raw_items_for_ingest(fin.rows, fin.limit, fin.min_tier,
                                                fin.source_id, fin.since_hours, QueryNow) :
          fout' = [rows |-> result]
    /\ UNCHANGED fin

-----------------------------------------------------------------------------
(* link_to_network(event, session, days_ahead, now=...).  The inventory is *)
(* the three tables in the order their queries return the rows; now and    *)
(* the wall clock are hours, dates are days, an unset date is <<>>.  The   *)
(* wall clock at the time of the call is an argument of the model although *)
(* the function has no such parameter, so that reading it can be told from *)
(* reading now.                                                            *)

MaxShipments == 2

DaysAhead == 30

\* a link step that takes the day from the wall clock
today_from_wall_clock(pinned_now, wall_clock) == wall_clock \div 24

\* "current_time = now; today = current_time.date()"
today(pinned_now, wall_clock) == pinned_now \div 24

\* the rows of a table that pass the test, in table order
Select(table, Test(_)) == SelectSeq(table, Test)

\* "today <= ship_dt <= future_date" for a date that is set
in_window(date, day) == date # <<>> /\ day <= date[1] /\ date[1] <= day + DaysAhead

\* the facility ids the event is matched to: the pre-specified ones, else
\* the facilities of the city or state, else the ids of the text found in
\* the table
match_facilities(event, inventory) ==
    IF event.facilities # <<>> THEN event.facilities
    ELSE LET by_location(f) ==
                 \/ event.city # "" /\ f.city = event.city
                 \/ event.state # "" /\ f.state = event.state
             by_text(f) == \E i \in DOMAIN event.text_ids : event.text_ids[i] = f.facility_id
             located == IF event.city # "" \/ event.state # ""
                        THEN Select(inventory.facilities, by_location) ELSE <<>>
             chosen == IF located # <<>> THEN located
                       ELSE Select(inventory.facilities, by_text)
         IN  [i \in DOMAIN chosen |-> chosen[i].facility_id]

link_to_network(event, session, inventory, pinned_now, wall_clock) ==
    IF ~session
    THEN [facilities |-> event.facilities, lanes |-> <<>>, shipments |-> <<>>]
    ELSE LET matched_facility_ids == match_facilities(event, inventory)
             day == today(pinned_now, wall_clock)
             from_matched(l) ==
                 \E i \in DOMAIN matched_facility_ids :
                     matched_facility_ids[i] = l.origin_facility_id
             lanes == Select(inventory.lanes, from_matched)
             include(s) ==
                 /\ \E i \in DOMAIN lanes : lanes[i].lane_id = s.lane_id
                 /\ \/ in_window(s.ship_date, day)
                    \/ in_window(s.eta_date, day)
                    \/ s.status \in {"PENDING", "IN_TRANSIT", "SCHEDULED"}
             shipments == Select(inventory.shipments, include)
         IN  [facilities |-> matched_facility_ids,
              lanes |-> [i \in DOMAIN lanes |-> lanes[i].lane_id],
              shipments |-> [i \in DOMAIN shipments |-> shipments[i].shipment_id]]

LinkFacilities ==
    <<[facility_id |-> "PLANT-01", city |-> "Avon", state |-> "Indiana"],
      [facility_id |-> "DC-02", city |-> "Avon", state |-> "Ohio"]>>

LinkLanes ==
    <<[lane_id |-> "LANE-1", origin_facility_id |-> "PLANT-01", dest_facility_id |-> "DC-02"],
      [lane_id |-> "LANE-2", origin_facility_id |-> "DC-02", dest_facility_id |-> "PLANT-03"]>>

LinkShipment(shipment_id, lane_id, ship_date, eta_date, status) ==
    [shipment_id |-> shipment_id, lane_id |-> lane_id, ship_date |-> ship_date,
     eta_date |-> eta_date, status |-> status]

LinkShipments ==
    {LinkShipment("SHIP-1", "LANE-1", <<1>>, <<>>, "DELIVERED"),
     LinkShipment("SHIP-2", "LANE-1", <<40>>, <<>>, "DELIVERED"),
     LinkShipment("SHIP-3", "LANE-2", <<0>>, <<2>>, "DELIVERED"),
     LinkShipment("SHIP-4", "LANE-2", <<>>, <<>>, "PENDING"),
     LinkShipment("SHIP-5", "LANE-1", <<>>, <<>>, "CANCELLED"),
     LinkShipment("SHIP-6", "LANE-1", <<50>>, <<>>, "PENDING")}

Inventories ==
    {[facilities |-> LinkFacilities, lanes |-> LinkLanes, shipments |-> s] :
        s \in {s \in UNION {[1..n -> LinkShipments] : n \in 0..MaxShipments} :
                 \A i, j \in DOMAIN s : s[i] = s[j] => i = j}}

LinkEvents ==
    [facilities : {<<>>, <<"PLANT-01">>, <<"DC-02", "PLANT-01">>},
     city : {"", "Avon"},
     state : {"", "Ohio"},
     text_ids : {<<>>, <<"DC-02">>}]

\* the hours of now and of the wall clock: days 0, 1 and 12
ClockHours == {0, 30, 300}

LinkInit ==
    /\ fin \in [event : LinkEvents, session : BOOLEAN, inventory : Inventories,
                now : ClockHours, wall_clock : ClockHours]
    /\ fout = None

\* a call of link_to_network at the wall-clock time fin.wall_clock
LinkFirst ==
    /\ fout = None
    /\ fout' = [first |-> link_to_network(fin.event, fin.session, fin.inventory,
                                          fin.now, fin.wall_clock)]
    /\ UNCHANGED fin

\* a call with the same arguments at any later wall-clock time
LinkSecond ==
    /\ fout # None
    /\ DOMAIN fout = {"first"}
    /\ \E wall_clock \in ClockHours :
          /\ wall_clock >= fin.wall_clock
          /\ fout' = [first |-> fout.first,
                      second |-> link_to_network(fin.event, fin.session, fin.inventory,
                                                 fin.now, wall_clock),
                      wall_clock |-> wall_clock]
    /\ UNCHANGED fin

-----------------------------------------------------------------------------
(* Replay of build_basic_alert.  One event is built twice: the second run  *)
(* on the session the first run left, or on a session restored to the      *)
(* state before the first run.  Each run reads its own wall clock and its  *)
(* own random source; in pinned mode the event carries scoring_now and the *)
(* event times of the determinism context, and the id generator and the    *)
(* clock are those of deterministic_id_context(now, seed).                 *)

MaxSeed == 2

\* the hours the wall clock shows at a run, and the values its random
\* source gives
WallClocks == {0, 30, 100}
RandomIds == {900, 901}

\* the day of the near-term ETA rule for a scorer that ignores scoring_now
scoring_day_from_wall_clock(scoring_now, wall_clock) == wall_clock \div 24

\* "scoring_now = event.get('scoring_now')", None unless it is a datetime,
\* passed as now= to the scorer, which falls back to the wall clock
scoring_day(scoring_now, wall_clock) ==
    IF scoring_now # <<>> THEN scoring_now[1] \div 24 ELSE wall_clock \div 24

\* new_alert_id(): in a pinned scope derived from the seed and the count of
\* ids the scope has given, else from a fresh random source
new_alert_id(mode, seed, counter, random_id) ==
    IF mode = "pinned" THEN 100 * seed + counter ELSE random_id

\* the clock of the alert repository: the pinned timestamp in a pinned
\* scope, else the wall clock
replay_clock(mode, determinism_context, wall_clock) ==
    IF mode = "pinned" THEN determinism_context.timestamp_utc ELSE wall_clock

\* the linked rows the scorer reads for the event: no critical facility, a
\* high-volume lane, one priority shipment whose ETA is on eta_day
replay_score_event(event, eta_day, day) ==
    [criticality_scores |-> <<5>>,
     volume_scores |-> <<7>>,
     shipment_count |-> 1,
     priority_count |-> 1,
     near_term_count |-> BoolInt(eta_day >= day /\ eta_day <= day + 2),
     event_type |-> "OTHER",
     text_keyword |-> event.keyword]

\* the flags _compute_max_allowed_classification reads off the breakdown
breakdown_flags(breakdown) ==
    [criticality |-> \E i \in DOMAIN breakdown : breakdown[i] = "R1",
     volume |-> \E i \in DOMAIN breakdown : breakdown[i] = "R2",
     priority |-> \E i \in DOMAIN breakdown : breakdown[i] = "R3"]

\* canonical_dumps of the incident artifact and its SHA-256, taken as
\* collision free: the hash is the payload
artifact_hash(payload) == payload

\* one run of build_basic_alert(event, session, determinism_mode=...,
\* determinism_context=...): the set holds the results the lookup allows
replay_build(event, eta_day, quality_config, rows, mode, determinism_context, wall_clock, random_id) ==
    LET pinned_event_time == IF mode = "pinned" THEN <<determinism_context.timestamp_utc>> ELSE <<>>
        day == scoring_day(pinned_event_time, wall_clock)
        scored == calculate_network_impact_score(
                      replay_score_event(event, eta_day, day), event.trust_tier, 0)
        quality == classify_with_session(event, scored.impact_score,
                       breakdown_flags(scored.breakdown), quality_config)
        clock == replay_clock(mode, determinism_context, wall_clock)
        alert_id == new_alert_id(mode, determinism_context.seed, 1, random_id)
    IN  {LET done == correlate(rows, existing_alert, event, alert_id,
                               quality.classification, scored.impact_score, clock)
         IN  [rows |-> done.rows,
              alert |->
                 [alert_id |-> done.alert.alert_id,
                  classification |-> done.alert.classification,
                  scope |-> done.alert.scope,
                  reasoning |-> quality.reasoning,
                  quality_validation |->
                     [max_allowed_classification |-> quality.max_allowed_classification,
                      high_impact_factors_count |-> quality.high_impact_factors_count,
                      applied_policy |-> quality.applied_policy],
                  artifact_hash |-> artifact_hash(
                     [alert_id |-> done.alert.alert_id,
                      event_id |-> event.event_id,
                      correlation_key |-> done.alert.correlation.key,
                      existing_alert |-> IF existing_alert = None THEN 0
                                         ELSE existing_alert.alert_id,
                      generated_at |-> pinned_event_time,
                      determinism_mode |-> mode,
                      determinism_context |-> IF mode = "pinned" THEN determinism_context
                                              ELSE None])]] :
            existing_alert \in find_recent_alert_by_key(rows, build_correlation_key(event), clock)}

ReplayEvents == {e \in AlertEvents : e.event_id \in {"EVT-2", "EVT-4", "EVT-5"}}

\* the alerts table before the first run: empty, or holding the alert of an
\* earlier event with the key of EVT-1 and EVT-2 or with the key of EVT-4
\* and EVT-5
ReplayStores ==
    {{}} \cup
    {correlate({}, None, e, 500, 1, 3, 0).rows :
        e \in {e \in AlertEvents : e.event_id \in {"EVT-1", "EVT-3"}}}

ReplayInit ==
    /\ fin \in [event : ReplayEvents,
                eta_day : {1, 3},
                quality_config : QualityConfigs,
                rows : ReplayStores,
                mode : {"pinned", "live"},
                determinism_context : [seed : 1..MaxSeed, timestamp_utc : {30}, run_id : {"R1"}]]
    /\ fout = None

\* the first run
ReplayFirst ==
    /\ fout = None
    /\ \E wall_clock \in WallClocks, random_id \in RandomIds :
       \E run \in replay_build(fin.event, fin.eta_day, fin.quality_config, fin.rows,
                               fin.mode, fin.determinism_context, wall_clock, random_id) :
          fout' = [kind |-> "first", first |-> run.alert, rows |-> run.rows]
    /\ UNCHANGED fin

\* the second run over the same session, as the replay test makes it
ReplaySameSession ==
    /\ fout # None
    /\ fout.kind = "first"
    /\ \E wall_clock \in WallClocks, random_id \in RandomIds :
       \E run \in replay_build(fin.event, fin.eta_day, fin.quality_config, fout.rows,
                               fin.mode, fin.determinism_context, wall_clock, random_id) :
          fout' = [kind |-> "same_session", first |-> fout.first, rows |-> run.rows,
                   second |-> run.alert]
    /\ UNCHANGED fin

\* an independent second run from the initial database state
ReplayIndependent ==
    /\ fout # None
    /\ fout.kind = "first"
    /\ \E wall_clock \in WallClocks, random_id \in RandomIds :
       \E run \in replay_build(fin.event, fin.eta_day, fin.quality_config, fin.rows,
                               fin.mode, fin.determinism_context, wall_clock, random_id) :
          fout' = [kind |-> "independent", first |-> fout.first, rows |-> run.rows,
                   second |-> run.alert]
    /\ UNCHANGED fin

-----------------------------------------------------------------------------
(* extract_event_type(text, title).  A string is the sequence of its       *)
(* characters, so that "kw in combined_text" is the substring test it is;  *)
(* a missing title is the empty string.                                    *)

MaxFragments == 2

\* str.lower() on the letters the texts of the model hold
lower_char(c) ==
    CASE c = "A" -> "a" [] c = "E" -> "e" [] c = "I" -> "i" [] c = "K" -> "k"
      [] c = "L" -> "l" [] c = "R" -> "r" [] c = "S" -> "s" [] c = "T" -> "t"
      [] OTHER -> c

lower(s) == [i \in DOMAIN s |-> lower_char(s[i])]

\* "kw in combined_text"
contains(combined_text, kw) ==
    \E i \in 1..(Len(combined_text) - Len(kw) + 1) :
        SubSeq(combined_text, i, i + Len(kw) - 1) = kw

any_in(keywords, combined_text) == \E kw \in keywords : contains(combined_text, kw)

weather_keywords ==
    {<<"h", "u", "r", "r", "i", "c", "a", "n", "e">>,
     <<"t", "o", "r", "n", "a", "d", "o">>,
     <<"f", "l", "o", "o", "d">>,
     <<"s", "t", "o", "r", "m">>,
     <<"b", "l", "i", "z", "z", "a", "r", "d">>,
     <<"s", "n", "o", "w">>,
     <<"i", "c", "e">>,
     <<"w", "a", "r", "n", "i", "n", "g">>,
     <<"w", "a", "t", "c", "h">>,
     <<"a", "l", "e", "r", "t">>,
     <<"s", "e", "v", "e", "r", "e", " ", "w", "e", "a", "t", "h", "e", "r">>,
     <<"t", "h", "u", "n", "d", "e", "r", "s", "t", "o", "r", "m">>,
     <<"w", "i", "n", "d">>,
     <<"h", "a", "i", "l">>,
     <<"f", "r", "e", "e", "z", "e">>,
     <<"f", "r", "o", "s", "t">>,
     <<"h", "e", "a", "t">>,
     <<"d", "r", "o", "u", "g", "h", "t">>}

spill_keywords ==
    {<<"s", "p", "i", "l", "l">>,
     <<"l", "e", "a", "k">>,
     <<"c", "o", "n", "t", "a", "m", "i", "n", "a", "t", "i", "o", "n">>,
     <<"c", "h", "e", "m", "i", "c", "a", "l", " ", "r", "e", "l", "e", "a", "s", "e">>,
     <<"h", "a", "z", "a", "r", "d", "o", "u", "s", " ", "m", "a", "t", "e", "r", "i", "a", "l">>,
     <<"o", "i", "l", " ", "s", "p", "i", "l", "l">>,
     <<"t", "o", "x", "i", "c">>,
     <<"p", "o", "l", "l", "u", "t", "i", "o", "n">>}

strike_keywords ==
    {<<"s", "t", "r", "i", "k", "e">>,
     <<"l", "a", "b", "o", "r", " ", "d", "i", "s", "p", "u", "t", "e">>,
     <<"w", "o", "r", "k", " ", "s", "t", "o", "p", "p", "a", "g", "e">>,
     <<"u", "n", "i", "o", "n">>,
     <<"w", "a", "l", "k", "o", "u", "t">>,
     <<"p", "i", "c", "k", "e", "t", "i", "n", "g">>,
     <<"l", "o", "c", "k", "o", "u", "t">>}

closure_keywords ==
    {<<"c", "l", "o", "s", "u", "r", "e">>,
     <<"c", "l", "o", "s", "e", "d">>,
     <<"s", "h", "u", "t", "d", "o", "w", "n">>,
     <<"s", "h", "u", "t", " ", "d", "o", "w", "n">>,
     <<"s", "u", "s", "p", "e", "n", "d", "e", "d">>,
     <<"h", "a", "l", "t", "e", "d">>,
     <<"b", "l", "o", "c", "k", "e", "d">>,
     <<"b", "a", "r", "r", "i", "c", "a", "d", "e">>,
     <<"e", "v", "a", "c", "u", "a", "t", "i", "o", "n">>,
     <<"e", "m", "e", "r", "g", "e", "n", "c", "y", " ", "c", "l", "o", "s", "u", "r", "e">>}

reg_keywords ==
    {<<"r", "e", "g", "u", "l", "a", "t", "i", "o", "n">>,
     <<"r", "e", "g", "u", "l", "a", "t", "o", "r", "y">>,
     <<"c", "o", "m", "p", "l", "i", "a", "n", "c", "e">>,
     <<"v", "i", "o", "l", "a", "t", "i", "o", "n">>,
     <<"f", "i", "n", "e">>,
     <<"p", "e", "n", "a", "l", "t", "y">>,
     <<"i", "n", "s", "p", "e", "c", "t", "i", "o", "n">>,
     <<"a", "u", "d", "i", "t">>,
     <<"s", "a", "n", "c", "t", "i", "o", "n">>,
     <<"b", "a", "n">>,
     <<"p", "r", "o", "h", "i", "b", "i", "t", "i", "o", "n">>}

recall_keywords ==
    {<<"r", "e", "c", "a", "l", "l">>,
     <<"r", "e", "c", "a", "l", "l", "e", "d">>,
     <<"w", "i", "t", "h", "d", "r", "a", "w", "a", "l">>,
     <<"r", "e", "m", "o", "v", "e", "d", " ", "f", "r", "o", "m", " ", "m", "a", "r", "k", "e", "t">>,
     <<"v", "o", "l", "u", "n", "t", "a", "r", "y", " ", "r", "e", "c", "a", "l", "l">>}

\* "combined_text += title.lower() + ' '" when there is a title, then the
\* lowered text
combine(text, title) ==
    (IF title # <<>> THEN lower(title) \o <<" ">> ELSE <<>>) \o lower(text)

\* an extraction that tests the strike keywords before the weather keywords
extract_event_type_strike_first(text, title) ==
    LET combined_text == combine(text, title)
    IN  IF any_in(strike_keywords, combined_text) THEN "STRIKE"
        ELSE IF any_in(weather_keywords, combined_text) THEN "WEATHER"
        ELSE IF any_in(spill_keywords, combined_text) THEN "SPILL"
        ELSE IF any_in(closure_keywords, combined_text) THEN "CLOSURE"
        ELSE IF any_in(reg_keywords, combined_text) THEN "REG"
        ELSE IF any_in(recall_keywords, combined_text) THEN "RECALL"
        ELSE "OTHER"

extract_event_type(text, title) ==
    LET combined_text == combine(text, title)
    IN  IF any_in(weather_keywords, combined_text) THEN "WEATHER"
        ELSE IF any_in(spill_keywords, combined_text) THEN "SPILL"
        ELSE IF any_in(strike_keywords, combined_text) THEN "STRIKE"
        ELSE IF any_in(closure_keywords, combined_text) THEN "CLOSURE"
        ELSE IF any_in(reg_keywords, combined_text) THEN "REG"
        ELSE IF any_in(recall_keywords, combined_text) THEN "RECALL"
        ELSE "OTHER"

\* the pieces the texts of the model are put together from
Fragments ==
    {<<"a", "l", "e", "r", "t", " ">>,
     <<"s", "t", "r", "i", "k", "e", " ">>,
     <<"S", "t", "r", "i", "k", "e", " ">>,
     <<"s", "p", "i", "l", "l", " ">>,
     <<"n", "o", "t">>,
     <<"i", "c", "e", " ">>,
     <<"c", "l", "o", "s", "e", "d", " ">>,
     <<"f", "i", "n", "e", " ">>,
     <<"r", "e", "c", "a", "l", "l", " ">>,
     <<"p", "o", "r", "t", " ">>,
     <<"s", "h", "u", "t">>,
     <<"d", "o", "w", "n", " ">>,
     <<"b">>,
     <<"a", "n", " ">>}

RECURSIVE join(_)
join(pieces) == IF pieces = <<>> THEN <<>> ELSE Head(pieces) \o join(Tail(pieces))

TypeTexts == {join(p) : p \in UNION {[1..n -> Fragments] : n \in 0..MaxFragments}}

TypeTitles == {<<>>, <<"P", "o", "r", "t">>, <<"A", "L", "E", "R", "T">>, <<"L", "e", "a", "k">>}

TypeInit ==
    /\ fin \in [text : TypeTexts, title : TypeTitles]
    /\ fout = None

\* _build_event_payload's call of extract_event_type(raw_text, title)
ExtractType ==
    /\ fout = None
    /\ fout' = [event_type |-> extract_event_type(fin.text, fin.title)]
    /\ UNCHANGED fin

-----------------------------------------------------------------------------
(* The event store: save_event is called with any event, one call after    *)
(* the other on one session.                                               *)

\* the events handed to save_event; event_id "" is an event without id
EventDicts == [event_id : {"", "EVT-1", "EVT-2", "EVT-3"}, raw_id : 1..2, suppressed : BOOLEAN]

\* save_event(session, event): ValueError for an event without event_id,
\* else the stored row or the row added
SaveEvent ==
    \E event \in EventDicts :
        /\ IF event.event_id = ""
           THEN /\ fout' = [event |-> event, raised |-> "ValueError", row |-> None]
                /\ UNCHANGED events
           ELSE /\ events' = save_event(events, event.event_id, event.raw_id, event.suppressed)
                /\ fout' = [event |-> event, raised |-> "",
                            row |-> CHOOSE e \in events' : e.event_id = event.event_id]
        /\ UNCHANGED <<fin, next_event, runs, no_suppress, ipc, batch, cur, stats, fetched, trail, outcome, errored, isolated, settled>>

-----------------------------------------------------------------------------
(* link_event_to_network of the ingest runner: facilities by city and      *)
(* state, lanes by origin or destination, shipments up to max_shipments.   *)

MaxLinked == 2

\* every id of the tables, in the order sorted() gives strings
IdOrder ==
    <<"DC-02", "LANE-1", "LANE-2", "PLANT-01",
      "SHIP-0", "SHIP-1", "SHIP-2", "SHIP-3", "SHIP-4", "SHIP-5", "SHIP-6">>

\* sorted(set(ids))
sorted_set(ids) == SelectSeq(IdOrder, LAMBDA x : x \in Range(ids))

\* the reverse lookup in US_STATE_TO_ABBR
full_state_name(state) ==
    IF state = "IN" THEN "Indiana" ELSE IF state = "OH" THEN "Ohio" ELSE state

\* the first rows of a query with .limit(n)
limit(rows, n) == SubSeq(rows, 1, Min(n, Len(rows)))

\* the shipment rows on the lanes found, before the limit
shipments_on(inventory, lane_ids) ==
    SelectSeq(inventory.shipments, LAMBDA s : s.lane_id \in Range(lane_ids))

\* the lanes touching the facilities, as ids in table order
lanes_touching(inventory, fac_ids) ==
    LET lanes == SelectSeq(inventory.lanes,
                           LAMBDA l : \/ l.origin_facility_id \in Range(fac_ids)
                                      \/ l.dest_facility_id \in Range(fac_ids))
    IN  [i \in DOMAIN lanes |-> lanes[i].lane_id]

\* link_event_to_network(event, session, max_shipments) over the tables of
\* the session; linking_notes are left out
link_network(event, inventory, max_shipments) ==
    LET hits == IF event.cs # <<>> /\ event.facilities = <<>>
                THEN SelectSeq(inventory.facilities,
                               LAMBDA f : /\ f.city = event.cs[1].city
                                          /\ f.state \in {event.cs[1].state,
                                                          full_state_name(event.cs[1].state)})
                ELSE <<>>
        facilities == IF hits # <<>>
                      THEN sorted_set(event.facilities \o [i \in DOMAIN hits |-> hits[i].facility_id])
                      ELSE event.facilities
        lane_ids == IF facilities # <<>> THEN lanes_touching(inventory, facilities) ELSE <<>>
        found == limit(shipments_on(inventory, lane_ids), max_shipments)
        shipment_ids == [i \in DOMAIN found |-> found[i].shipment_id]
    IN  [facilities |-> facilities,
         lanes |-> IF lane_ids # <<>> THEN sorted_set(event.lanes \o lane_ids) ELSE event.lanes,
         shipments |-> IF shipment_ids # <<>>
                       THEN sorted_set(event.shipments \o shipment_ids) ELSE event.shipments]

\* events as they reach the linker: with or without "City, ST" in the text,
\* with or without facilities, lanes and shipments set before
NetworkEvents ==
    [cs : {<<>>, <<[city |-> "Avon", state |-> "IN"]>>, <<[city |-> "Avon", state |-> "OH"]>>},
     facilities : {<<>>, <<"PLANT-01">>},
     lanes : {<<>>, <<"LANE-2">>},
     shipments : {<<>>, <<"SHIP-0">>}]

NetworkInit ==
    /\ fin \in [event : NetworkEvents, inventory : Inventories, max_shipments : 1..MaxLinked]
    /\ fout = None

\* the runner's link_event_to_network followed by the scope build_basic_alert
\* stores for the linked event
LinkNetwork ==
    /\ fout = None
    /\ LET linked == link_network(fin.event, fin.inventory, fin.max_shipments)
       IN  fout' = [event |-> linked, scope |-> scope_payload(linked)]
    /\ UNCHANGED fin

-----------------------------------------------------------------------------
(* _merge_scope on its own: a stored scope, or none, and an incoming one.  *)

\* id lists as an event can hand them over: repeated ids and nulls included
ScopeLists == UNION {[1..n -> {<<1>>, <<2>>, NullId}] : n \in 0..MaxLen}

Scopes ==
    [facilities : ScopeLists,
     lanes : {<<>>, << <<1>> >>},
     shipments : {<< <<5>> >>, << <<6>>, <<5>> >>},
     shipments_total_linked : {2, 9},
     shipments_truncated : BOOLEAN]

MergeInit ==
    /\ fin \in [existing : {None} \cup Scopes, new : Scopes]
    /\ fout = None

\* the update path's _merge_scope(existing_alert.scope_json, scope_payload)
MergeScope ==
    /\ fout = None
    /\ fout' = [once |-> merge_scope(fin.existing, fin.new)]
    /\ UNCHANGED fin

\* the merged scope is stored and the same incoming scope is merged again
MergeAgain ==
    /\ fout # None
    /\ DOMAIN fout = {"once"}
    /\ fout' = [once |-> fout.once, twice |-> merge_scope(fout.once, fin.new)]
    /\ UNCHANGED fin

-----------------------------------------------------------------------------
(* The SQLite migrations.  A database file is its tables (name to set of   *)
(* columns), the number of rows of each table, and its indexes.            *)

MaxMigrationRuns == 2

Migrations ==
    {"ensure_alert_correlation_columns", "ensure_raw_items_table", "ensure_event_external_fields"}

AlertBaseColumns == {"alert_id", "summary"}
EventBaseColumns == {"event_id", "title"}

AlertAdditions ==
    {"classification", "correlation_key", "correlation_action", "first_seen_utc",
     "last_seen_utc", "update_count", "root_event_ids_json", "impact_score", "scope_json"}

EventAdditions ==
    {"source_id", "raw_id", "event_time_utc", "location_hint", "entities_json",
     "event_payload_json"}

RawItemsColumns ==
    {"raw_id", "source_id", "tier", "fetched_at_utc", "published_at_utc", "canonical_id",
     "url", "title", "raw_payload_json", "content_hash", "status", "error"}

RawItemsIndexes ==
    {"idx_raw_items_source_id", "idx_raw_items_canonical_id", "idx_raw_items_content_hash",
     "idx_raw_items_status"}

EventIndexes == {"idx_events_source_id", "idx_events_raw_id"}

\* a loop that replaces the columns by the additions
replace_columns(columns, additions) == additions

\* for col in additions: ALTER TABLE ... ADD COLUMN col unless it exists
add_missing_columns(columns, additions) == columns \cup additions

\* CREATE TABLE and its CREATE INDEX statements, unless the table exists
create_table_if_missing(db, table, columns, indexes) ==
    IF table \in DOMAIN db.tables THEN db
    ELSE [tables |-> [t \in DOMAIN db.tables \cup {table} |->
                         IF t = table THEN columns ELSE db.tables[t]],
          rows |-> [t \in DOMAIN db.tables \cup {table} |->
                       IF t = table THEN 0 ELSE db.rows[t]],
          indexes |-> db.indexes \cup indexes]

\* ALTER TABLE on a table that does not exist raises OperationalError at the
\* first addition
ensure_alert_correlation_columns(db) ==
    IF "alerts" \notin DOMAIN db.tables
    THEN [db |-> db, raised |-> TRUE]
    ELSE [db |-> [db EXCEPT !.tables["alerts"] = add_missing_columns(@, AlertAdditions)],
          raised |-> FALSE]

ensure_raw_items_table(db) ==
    [db |-> create_table_if_missing(db, "raw_items", RawItemsColumns, RawItemsIndexes),
     raised |-> FALSE]

ensure_event_external_fields(db) ==
    IF "events" \notin DOMAIN db.tables
    THEN [db |-> db, raised |-> TRUE]
    ELSE [db |-> [db EXCEPT !.tables["events"] = add_missing_columns(@, EventAdditions),
                            !.indexes = @ \cup EventIndexes],
          raised |-> FALSE]

migrate(migration, db) ==
    CASE migration = "ensure_alert_correlation_columns" -> ensure_alert_correlation_columns(db)
      [] migration = "ensure_raw_items_table" -> ensure_raw_items_table(db)
      [] migration = "ensure_event_external_fields" -> ensure_event_external_fields(db)

\* the tables a file can come with: each one missing, as an early version
\* made it, or complete; with or without a row
TableStates(early, additions) ==
    {<<>>} \cup {<<[columns |-> c, rows |-> n]>> : c \in {early, early \cup additions}, n \in 0..1}

DbOf(alerts_table, events_table, raw_items_table) ==
    LET present == (IF alerts_table # <<>> THEN {"alerts"} ELSE {})
                       \cup (IF events_table # <<>> THEN {"events"} ELSE {})
                       \cup (IF raw_items_table # <<>> THEN {"raw_items"} ELSE {})
        table(t) == IF t = "alerts" THEN alerts_table[1]
                    ELSE IF t = "events" THEN events_table[1] ELSE raw_items_table[1]
    IN  [tables |-> [t \in present |-> table(t).columns],
         rows |-> [t \in present |-> table(t).rows],
         indexes |-> IF raw_items_table # <<>> THEN RawItemsIndexes ELSE {}]

DatabaseFiles ==
    {DbOf(a, e, r) :
        a \in TableStates(AlertBaseColumns, {"classification"}) \cup TableStates(AlertBaseColumns, AlertAdditions),
        e \in TableStates(EventBaseColumns, EventAdditions),
        r \in {<<>>, <<[columns |-> RawItemsColumns, rows |-> 0]>>,
               <<[columns |-> RawItemsColumns, rows |-> 1]>>}}

\* fin: the file as it was found and the calls made so far; fout: the file
\* as the calls left it
MigrateInit ==
    /\ \E db \in DatabaseFiles :
          /\ fin = [original |-> db, ran |-> [m \in Migrations |-> 0], raised |-> FALSE]
          /\ fout = db

\* one call of a migration on the file
Migrate ==
    \E migration \in Migrations :
        /\ fin.ran[migration] < MaxMigrationRuns
        /\ LET result == migrate(migration, fout)
           IN  /\ fout' = result.db
               /\ fin' = [fin EXCEPT !.ran[migration] = @ + 1, !.raised = result.raised]

-----------------------------------------------------------------------------
(* Specifications.  Each one runs one part of the program; the variables   *)
(* of the other parts stay at their idle values.                           *)

RawIdle   == raw_items = {} /\ next_raw = 0 /\ saved = None
ConcIdle  == wpc = [w \in Writers |-> "done"] /\ wreq = None /\ wfound = None
AlertIdle == /\ alerts = {} /\ next_alert = 0 /\ now = 0 /\ built = None
             /\ correlated = [a \in 1..MaxIngest |-> 0]
ClassIdle == cin = None /\ cout = None
KeyIdle   == kin = None /\ kout = None
IngestIdle == IngestInit
FunIdle   == fin = None /\ fout = None

InitClass == ClassInit /\ RawIdle /\ ConcIdle /\ AlertIdle /\ KeyIdle /\ IngestIdle /\ FunIdle
NextClass == ClassifyEvent /\ UNCHANGED <<rawVars, concVars, alertVars, keyVars, ingestVars, funVars>>
SpecClass == InitClass /\ [][NextClass]_vars

InitRaw == RawInit /\ ConcIdle /\ AlertIdle /\ ClassIdle /\ KeyIdle /\ IngestIdle /\ FunIdle
NextRaw ==
    \/ RawSave /\ UNCHANGED <<concVars, alertVars, classVars, keyVars, ingestVars, funVars>>
    \/ RawMark /\ UNCHANGED <<concVars, alertVars, classVars, keyVars, ingestVars, funVars>>
SpecRaw == InitRaw /\ [][NextRaw]_vars

InitConc == ConcInit /\ next_raw = 0 /\ saved = None /\ AlertIdle /\ ClassIdle /\ KeyIdle /\ IngestIdle /\ FunIdle
NextConc ==
    \/ \E w \in Writers : WriterLookup(w) /\ UNCHANGED <<alertVars, classVars, keyVars, ingestVars, funVars>>
    \/ \E w \in Writers : WriterWrite(w) /\ UNCHANGED <<alertVars, classVars, keyVars, ingestVars, funVars>>
SpecConc == InitConc /\ [][NextConc]_vars

InitAlert == AlertInit /\ RawIdle /\ ConcIdle /\ ClassIdle /\ KeyIdle /\ IngestIdle /\ FunIdle
NextAlert ==
    \/ AlertBuild /\ UNCHANGED <<rawVars, concVars, classVars, keyVars, ingestVars, funVars>>
    \/ Tick /\ UNCHANGED <<rawVars, concVars, classVars, keyVars, ingestVars, funVars>>
SpecAlert == InitAlert /\ [][NextAlert]_vars

InitKey == KeyInit /\ RawIdle /\ ConcIdle /\ AlertIdle /\ ClassIdle /\ IngestIdle /\ FunIdle
NextKey == BuildKeys /\ UNCHANGED <<rawVars, concVars, alertVars, classVars, ingestVars, funVars>>
SpecKey == InitKey /\ [][NextKey]_vars

InitIngest == IngestInit /\ RawInit /\ AlertInit /\ ConcIdle /\ ClassIdle /\ KeyIdle /\ FunIdle
NextIngest ==
    \/ IngestFetch /\ UNCHANGED <<concVars, classVars, keyVars, funVars>>
    \/ IngestStart /\ UNCHANGED <<concVars, classVars, keyVars, funVars>>
    \/ IngestNormalize /\ UNCHANGED <<concVars, classVars, keyVars, funVars>>
    \/ IngestBuildAlert /\ UNCHANGED <<concVars, classVars, keyVars, funVars>>
    \/ IngestBuildAlertRaises /\ UNCHANGED <<concVars, classVars, keyVars, funVars>>
    \/ IngestMarkNormalized /\ UNCHANGED <<concVars, classVars, keyVars, funVars>>
    \/ IngestRaise /\ UNCHANGED <<concVars, classVars, keyVars, funVars>>
    \/ IngestCancel /\ UNCHANGED <<concVars, classVars, keyVars, funVars>>
    \/ IngestReturn /\ UNCHANGED <<concVars, classVars, keyVars, funVars>>
SpecIngest == InitIngest /\ [][NextIngest]_vars

InitDetect == DetectInit /\ RawIdle /\ ConcIdle /\ AlertIdle /\ ClassIdle /\ KeyIdle /\ IngestIdle
NextDetect == DetectKeywords /\ UNCHANGED <<rawVars, concVars, alertVars, classVars, keyVars, ingestVars>>
SpecDetect == InitDetect /\ [][NextDetect]_vars

InitScore == ScoreInit /\ RawIdle /\ ConcIdle /\ AlertIdle /\ ClassIdle /\ KeyIdle /\ IngestIdle
NextScore == ScoreEvent /\ UNCHANGED <<rawVars, concVars, alertVars, classVars, keyVars, ingestVars>>
SpecScore == InitScore /\ [][NextScore]_vars

InitQuery == QueryInit /\ RawIdle /\ ConcIdle /\ AlertIdle /\ ClassIdle /\ KeyIdle /\ IngestIdle
NextQuery == QueryForIngest /\ UNCHANGED <<rawVars, concVars, alertVars, classVars, keyVars, ingestVars>>
SpecQuery == InitQuery /\ [][NextQuery]_vars

InitLink == LinkInit /\ RawIdle /\ ConcIdle /\ AlertIdle /\ ClassIdle /\ KeyIdle /\ IngestIdle
NextLink == (LinkFirst \/ LinkSecond) /\ UNCHANGED <<rawVars, concVars, alertVars, classVars, keyVars, ingestVars>>
SpecLink == InitLink /\ [][NextLink]_vars

InitReplay == ReplayInit /\ RawIdle /\ ConcIdle /\ AlertIdle /\ ClassIdle /\ KeyIdle /\ IngestIdle
NextReplay == (ReplayFirst \/ ReplaySameSession \/ ReplayIndependent) /\ UNCHANGED <<rawVars, concVars, alertVars, classVars, keyVars, ingestVars>>
SpecReplay == InitReplay /\ [][NextReplay]_vars

InitType == TypeInit /\ RawIdle /\ ConcIdle /\ AlertIdle /\ ClassIdle /\ KeyIdle /\ IngestIdle
NextType == ExtractType /\ UNCHANGED <<rawVars, concVars, alertVars, classVars, keyVars, ingestVars>>
SpecType == InitType /\ [][NextType]_vars

InitEvent == IngestInit /\ FunIdle /\ RawIdle /\ ConcIdle /\ AlertIdle /\ ClassIdle /\ KeyIdle
NextEvent == SaveEvent /\ UNCHANGED <<rawVars, concVars, alertVars, classVars, keyVars>>
SpecEvent == InitEvent /\ [][NextEvent]_vars


InitNetwork == NetworkInit /\ RawIdle /\ ConcIdle /\ AlertIdle /\ ClassIdle /\ KeyIdle /\ IngestIdle
NextNetwork == LinkNetwork /\ UNCHANGED <<rawVars, concVars, alertVars, classVars, keyVars, ingestVars>>
SpecNetwork == InitNetwork /\ [][NextNetwork]_vars

InitMerge == MergeInit /\ RawIdle /\ ConcIdle /\ AlertIdle /\ ClassIdle /\ KeyIdle /\ IngestIdle
NextMerge ==
    \/ MergeScope /\ UNCHANGED <<rawVars, concVars, alertVars, classVars, keyVars, ingestVars>>
    \/ MergeAgain /\ UNCHANGED <<rawVars, concVars, alertVars, classVars, keyVars, ingestVars>>
SpecMerge == InitMerge /\ [][NextMerge]_vars

InitMigrate == MigrateInit /\ RawIdle /\ ConcIdle /\ AlertIdle /\ ClassIdle /\ KeyIdle /\ IngestIdle
NextMigrate == Migrate /\ UNCHANGED <<rawVars, concVars, alertVars, classVars, keyVars, ingestVars>>
SpecMigrate == InitMigrate /\ [][NextMigrate]_vars
-----------------------------------------------------------------------------
(* Properties of the classification (SpecClass).                           *)

\* C1: under Policy B the final classification of build_basic_alert is at
\* most max_allowed_class computed from the same inputs: the source floor
\* never lifts the classification above the quality cap.
C1_FinalWithinQualityCap ==
    (cout # None /\ cout.applied_policy = "B")
        => cout.classification <= cout.max_allowed_classification

\* C2: under Policy B, when the event's classification_floor is greater than
\* 0, the final classification is at least min(floor, max_allowed_class).
C2_FloorReachedUpToCap ==
    (cout # None /\ cout.applied_policy = "B" /\ cin.event.classification_floor > 0)
        => cout.classification
              >= Min(cin.event.classification_floor, cout.max_allowed_classification)

\* a score class of 0 under a cap of 2, errored to the floor of 1
C2_RaisedFromZero ==
    /\ cout # None
    /\ cout.applied_policy = "B"
    /\ cin.event.classification_floor = 1
    /\ cout.score_class = 0
    /\ cout.max_allowed_classification = 2
    /\ cout.classification = 1

-----------------------------------------------------------------------------
(* Properties of the raw-item store with one writer (SpecRaw).             *)

\* C3: a second save_raw_item(S, _, C) right after a first one (whatever
\* mark_raw_item_status did to the row in between) returns the row of the
\* first call, inserts nothing, leaves one row matching C, and changes only
\* that row's fetched_at_utc: raw id, status, payload, title, url and error
\* stay as they were.
C3_SecondSaveTouchesOnlyFetchTime ==
    [][\A source_id \in Sources, candidate \in Candidates, fetched_at_utc \in FetchTimes :
          ( /\ saved # None
            /\ saved.source_id = source_id
            /\ saved.candidate = candidate
            /\ SaveRawItem(source_id, candidate, fetched_at_utc) )
          => LET row == CHOOSE r \in raw_items : r.raw_id = saved.raw_id
                 touched == [row EXCEPT !.fetched_at_utc = fetched_at_utc]
             IN  /\ saved'.raw_id = saved.raw_id
                 /\ saved'.created = FALSE
                 /\ raw_items' = (raw_items \ {row}) \cup {touched}
                 /\ Cardinality(raw_items') = Cardinality(raw_items)
                 /\ find_existing(raw_items', source_id, candidate) = {touched}
      ]_vars

\* the second save of a candidate found its row FAILED, and left it FAILED
\* with the new fetch time
C3_ResavedFailedRow ==
    /\ saved # None
    /\ saved.created = FALSE
    /\ \E r \in raw_items :
          /\ r.raw_id = saved.raw_id
          /\ r.source_id = saved.source_id
          /\ r.content_hash = compute_content_hash(saved.candidate)
          /\ r.status = "FAILED"
          /\ r.error = "error"
          /\ r.fetched_at_utc = 2

\* C4: with a single writer the store never holds two rows with the same
\* (source_id, canonical_id) where canonical_id is non-empty, nor two rows
\* without canonical_id with the same (source_id, content_hash).
C4_DedupeKeysUnique ==
    \A r1, r2 \in raw_items :
        ( /\ r1.source_id = r2.source_id
          /\ \/ r1.canonical_id # "" /\ r1.canonical_id = r2.canonical_id
             \/ /\ r1.canonical_id = ""
                /\ r2.canonical_id = ""
                /\ r1.content_hash = r2.content_hash )
        => r1 = r2

\* a candidate with a known canonical id and a new payload was saved again:
\* it went to the row of its canonical id, next to a row without one
C4_SameCanonicalOtherPayload ==
    /\ saved # None
    /\ saved.created = FALSE
    /\ saved.candidate.canonical_id # ""
    /\ \E r1, r2 \in raw_items :
          /\ r1.raw_id = saved.raw_id
          /\ r1.canonical_id = saved.candidate.canonical_id
          /\ r1.raw_payload_json # saved.candidate.payload
          /\ r2.source_id = r1.source_id
          /\ r2.canonical_id = ""

-----------------------------------------------------------------------------
(* Properties of the raw-item store with two writers (SpecConc).           *)

\* C5: when two writers call save_raw_item concurrently for the same source
\* and the same candidate, in every interleaving of their lookups and
\* inserts the store ends with a single row for that item.
C5_ConcurrentSavesCollapse ==
    ( /\ \A w \in Writers : wpc[w] = "done"
      /\ wreq[1].source_id = wreq[2].source_id
      /\ wreq[1].candidate = wreq[2].candidate )
    => Cardinality({r \in raw_items :
                       /\ r.source_id = wreq[1].source_id
                       /\ r.content_hash = compute_content_hash(wreq[1].candidate)}) = 1

-----------------------------------------------------------------------------
(* Properties of the correlated alert upsert (SpecAlert).  A step that     *)
(* changes next_alert is a build_basic_alert call; it had a session unless *)
(* the returned correlation action is "None", and its event is the one     *)
(* whose event_id the returned alert carries.                              *)

\* C6: scope monotonicity.  After each ingest the facilities, lanes and
\* shipments stored for an alert are supersets of what was stored for it
\* before (nothing is removed from an alert's scope), and the alert an event
\* correlated into holds the ids of that event.
C6_ScopeOnlyGrows ==
    [][LET Within(s, t) == /\ Range(s.facilities) \subseteq Range(t.facilities)
                           /\ Range(s.lanes) \subseteq Range(t.lanes)
                           /\ Range(s.shipments) \subseteq Range(t.shipments)
           event == CHOOSE e \in AlertEvents : e.event_id = built'.root_event_id
       IN  /\ \A a \in alerts : \E b \in alerts' :
                 b.alert_id = a.alert_id /\ Within(a.scope_json, b.scope_json)
           /\ (next_alert' # next_alert /\ built'.correlation.action # "None")
              => \E b \in alerts' :
                    /\ b.alert_id = built'.alert_id
                    /\ Within(scope_payload(event), b.scope_json)
                    /\ Within(scope_payload(event), built'.scope)
      ]_vars

\* EVT-1, which names one lane and no shipment, was the last event merged
\* into an alert that still holds the two lanes and the shipment of EVT-2
C6_SmallerEventMergedLast ==
    \E a \in alerts :
        /\ a.root_event_id = "EVT-1"
        /\ a.correlation_action = "UPDATED"
        /\ Len(a.scope_json.lanes) = 2
        /\ Len(a.scope_json.shipments) = 1

\* C7: an alert's update_count equals the number of ingested events that
\* correlated into it: 1 when the alert is created, one more for each
\* UPDATED ingest, and changed by nothing else.
C7_UpdateCountCountsIngests ==
    /\ \A a \in alerts : a.update_count = correlated[a.alert_id]
    /\ \A id \in 1..MaxIngest : correlated[id] > 0 => \E a \in alerts : a.alert_id = id

\* one alert took two events while another alert took one
C7_TwoAlertsCounted ==
    \E a, b \in alerts :
        /\ a.update_count = 2
        /\ correlated[a.alert_id] = 2
        /\ b.update_count = 1
        /\ b.correlation_action = "CREATED"

\* C8: on every UPDATED ingest the alert's alert_id and first_seen are left
\* unchanged and last_seen does not decrease; the alert returned to the
\* caller carries the existing alert's id, not the id generated at the start
\* of build_basic_alert.
C8_UpdatedKeepsIdentity ==
    [][(next_alert' # next_alert /\ built'.correlation.action = "UPDATED")
          => /\ {a.alert_id : a \in alerts'} = {a.alert_id : a \in alerts}
             /\ \A a \in alerts : \E b \in alerts' :
                   /\ b.alert_id = a.alert_id
                   /\ b.first_seen_utc = a.first_seen_utc
                   /\ b.last_seen_utc >= a.last_seen_utc
             /\ \E a \in alerts :
                   /\ a.correlation_key = built'.correlation.key
                   /\ built'.alert_id = a.alert_id
                   /\ built'.correlation.alert_id = a.alert_id
             /\ built'.generated_id = next_alert'
             /\ built'.alert_id # built'.generated_id
      ]_vars

\* an update, after the window had passed once, returned the id of the
\* second alert of its key, first seen long before the update
C8_UpdatedReturnedOlderId ==
    /\ built # None
    /\ built.correlation.action = "UPDATED"
    /\ built.generated_id = MaxIngest
    /\ built.alert_id = 2
    /\ \E a \in alerts :
          /\ a.alert_id = built.alert_id
          /\ a.first_seen_utc < a.last_seen_utc
          /\ a.last_seen_utc = now

\* C9: with a session, build_basic_alert takes the UPDATED path exactly when
\* an alert with the event's correlation key and last_seen within 7 days of
\* the clock exists, and then adds no row; otherwise it takes the CREATED
\* path and inserts one alert row with update_count = 1 and first_seen =
\* last_seen = now.  So two events with one key ingested an hour apart give
\* one alert with update_count = 2 and correlation_action UPDATED.
C9_UpdatedIffRecentAlert ==
    [][(next_alert' # next_alert /\ built'.correlation.action # "None")
          => LET event == CHOOSE e \in AlertEvents : e.event_id = built'.root_event_id
                 key == build_correlation_key(event)
                 recent == {a \in alerts : /\ a.correlation_key = key
                                           /\ now - a.last_seen_utc <= WindowHours}
             IN  IF recent # {}
                 THEN /\ built'.correlation.action = "UPDATED"
                      /\ Cardinality(alerts') = Cardinality(alerts)
                      /\ \E a \in recent : \E b \in alerts' :
                            /\ b.alert_id = a.alert_id
                            /\ b.update_count = a.update_count + 1
                            /\ b.correlation_action = "UPDATED"
                 ELSE /\ built'.correlation.action = "CREATED"
                      /\ \E row \in alerts' :
                            /\ alerts' = alerts \cup {row}
                            /\ row \notin alerts
                            /\ row.alert_id = built'.alert_id
                            /\ row.correlation_key = key
                            /\ row.correlation_action = "CREATED"
                            /\ row.update_count = 1
                            /\ row.first_seen_utc = now
                            /\ row.last_seen_utc = now
      ]_vars

\* two events with one key, an hour apart: one alert, updated once
C9_TwoEventsOneHourApart ==
    /\ now = 1
    /\ next_alert = 2
    /\ Cardinality(alerts) = 1
    /\ \E a \in alerts :
          /\ a.update_count = 2
          /\ a.correlation_action = "UPDATED"
          /\ a.first_seen_utc = 0
          /\ a.last_seen_utc = 1

-----------------------------------------------------------------------------
(* Properties of the correlation key (SpecKey).                            *)

\* C10: build_correlation_key is a deterministic function of the event that
\* depends on facilities and lanes only as sets: two calls on one event give
\* one key, and permuting the facilities or lanes lists, or repeating an id
\* in them, does not change the key.
C10_KeyDependsOnIdSets ==
    kout # None
    => /\ kout.first = kout.again
       /\ ( /\ Range(kin[1].facilities) = Range(kin[2].facilities)
            /\ Range(kin[1].lanes) = Range(kin[2].lanes) )
          => kout.first = kout.second

\* the facilities permuted and a lane repeated, with "10" sorting before "2"
C10_PermutedAndRepeated ==
    /\ kout # None
    /\ kin[1].facilities = << <<2>>, <<1, 0>> >>
    /\ kin[2].facilities = << <<1, 0>>, <<2>> >>
    /\ kin[1].lanes = << <<1>>, <<1>> >>
    /\ kin[2].lanes = << <<1>> >>
    /\ kout.first = kout.second
    /\ kout.first[2] = <<1, 0>>

\* C11: the correlation key has three parts: the risk bucket, the
\* lexicographically minimum facility id of the event (NONE when it has no
\* facilities) and the lexicographically minimum lane id (NONE when it has
\* no lanes).
C11_KeyHasBucketMinFacilityMinLane ==
    kout # None
    => LET key == kout.first
           event == kin[1]
           IsMinOf(id, ids) ==
               IF ids = <<>> THEN id = NONE
               ELSE /\ id \in Range(ids)
                    /\ \A other \in Range(ids) : other = id \/ LexLess(id, other)
       IN  /\ Len(key) = 3
           /\ key[1] \in {"SPILL", "STRIKE", "CLOSURE", "GENERAL"}
           /\ IsMinOf(key[2], event.facilities)
           /\ IsMinOf(key[3], event.lanes)

\* facilities "2" and "10" and no lane: the key names "10" and NONE
C11_TenBeforeTwoNoLane ==
    /\ kout # None
    /\ kin[1].facilities = << <<2>>, <<1, 0>> >>
    /\ kin[1].lanes = <<>>
    /\ kout.first[2] = <<1, 0>>
    /\ kout.first[3] = NONE

\* C12: the risk bucket is event_type uppercased when event_type is present;
\* when it is missing it is inferred from the text: SPILL if the text
\* contains "spill", else STRIKE if it contains "strike" or "walkout", else
\* CLOSURE if it contains "closure", "closed", "shutdown" or "shut down",
\* else GENERAL.
C12_RiskBucket ==
    kout # None
    => LET bucket == kout.first[1]
           event == kin[1]
           text == event.text_words
           strike == text \cap {"strike", "walkout"} # {}
           closure == text \cap {"closure", "closed", "shutdown", "shut down"} # {}
       IN  /\ event.event_type = "spill" => bucket = "SPILL"
           /\ event.event_type = "STRIKE" => bucket = "STRIKE"
           /\ event.event_type = ""
              => /\ "spill" \in text => bucket = "SPILL"
                 /\ ("spill" \notin text /\ strike) => bucket = "STRIKE"
                 /\ ("spill" \notin text /\ ~strike /\ closure) => bucket = "CLOSURE"
                 /\ ("spill" \notin text /\ ~strike /\ ~closure) => bucket = "GENERAL"

\* no event_type and a text that holds both "spill" and "strike": SPILL
C12_SpillBeforeStrike ==
    /\ kout # None
    /\ kin[1].event_type = ""
    /\ kin[1].text_words = {"spill", "strike"}
    /\ kout.first[1] = "SPILL"

-----------------------------------------------------------------------------
(* mark_raw_item_status on the raw-item store (SpecRaw).                   *)

\* C15: mark_raw_item_status with the status the item already has leaves the
\* status as it is; with a different status on an item that is already
\* NORMALIZED, FAILED or SUPPRESSED it is an error and the stored status
\* does not change.  So the status of a row in a terminal status never
\* changes.
C15_TerminalStatusIsFinal ==
    [][\A r \in raw_items :
          r.status \in {"NORMALIZED", "FAILED", "SUPPRESSED"}
          => \E q \in raw_items' : q.raw_id = r.raw_id /\ q.status = r.status
      ]_vars

-----------------------------------------------------------------------------
(* Properties of the quality cap (SpecClass).                              *)

\* the reasoning lines of the cap that cite the missing network links
NoNetworkLinksLines ==
    {<<"No network links found">>, <<"No network links found; high-impact keyword">>}

\* C19: an event without linked facilities gets cap 0 whatever the impact
\* score, the breakdown, the trust tier, the confidence map and the keyword,
\* and the cap's reasoning is one line citing the missing network links.
C19_NoFacilitiesCapZero ==
    (cout # None /\ cin.event.facilities = <<>>)
        => /\ cout.max_allowed_classification = 0
           /\ \A breakdown \in Breakdowns :
                 LET quality == compute_max_allowed_classification(cin.event,
                                    cout.impact_score, breakdown, cin.event.trust_tier)
                 IN  /\ quality.max_class = 0
                     /\ quality.reasoning \in NoNetworkLinksLines

\* a high-impact keyword from a tier-3 source with the highest impact score
\* and no facility: score class 2 capped to 0, the cap's line kept
C19_TrustedKeywordStaysZero ==
    /\ cout # None
    /\ cin.event.facilities = <<>>
    /\ cin.event.keyword
    /\ cin.event.trust_tier = 3
    /\ cin.event.classification_floor = 0
    /\ cout.impact_score = MaxImpactScore
    /\ cout.score_class = 2
    /\ cout.max_allowed_classification = 0
    /\ cout.classification = 0
    /\ cout.reasoning = <<"No network links found; high-impact keyword">>

\* the six compensators of an ambiguous match that hold for the event
Compensators(event, impact_score) ==
    {c \in {"trust", "keyword", "lanes", "shipments", "facilities", "score"} :
        CASE c = "trust" -> event.trust_tier = 3
          [] c = "keyword" -> event.keyword
          [] c = "lanes" -> event.lanes # <<>> /\ ConfGet(event, "lanes") >= 70
          [] c = "shipments" -> event.shipments # <<>> /\ ConfGet(event, "shipments") >= 60
          [] c = "facilities" -> Len(event.facilities) > 1
          [] c = "score" -> impact_score >= 6}

-----------------------------------------------------------------------------
(* Properties of the ingest runner (SpecIngest).                           *)

\* the raw ids of the batch of the current or last run
FetchedIds == {r.raw_id : r \in Range(fetched)}

\* C13: whenever processing of a raw item raises, the item ends FAILED with
\* the error text stored, errors grows by exactly one, and every other item
\* of the batch gets from build_basic_alert what it would have got had the
\* failing item not been in the batch.
C13_FailureIsolated ==
    /\ \A raw_id \in errored :
          /\ StatusOf(raw_items, raw_id) = "FAILED"
          /\ RowOf(raw_items, raw_id).error = "error"
    /\ stats.errors = Cardinality(errored)
    /\ \A raw_id \in RawIds :
          outcome[raw_id] # None => outcome[raw_id].action = outcome[raw_id].alone

SameKeyPairs ==
    {<<a, b>> \in Range(fetched) \X Range(fetched) :
        /\ a.fetched_at_utc < b.fetched_at_utc
        /\ outcome[a.raw_id] # None
        /\ outcome[b.raw_id] # None
        /\ outcome[a.raw_id].key = outcome[b.raw_id].key}

AlertCore(rows) ==
    {[alert_id |-> a.alert_id, scope_json |-> a.scope_json,
      classification |-> a.classification] : a \in rows}

\* a step that adds no raw-item, event or alert row and changes no alert's
\* id, scope or classification
RerunSafeStep ==
    /\ events' = events
    /\ {r.raw_id : r \in raw_items'} = {r.raw_id : r \in raw_items}
    /\ AlertCore(alerts') = AlertCore(alerts)

\* C17 as the specification states it: once an ingest run has completed,
\* saving the candidates already stored again and running ingest again adds
\* no raw-item, event or alert row and changes no alert's scope,
\* classification or id.
C17_RerunChangesNothing ==
    [][(settled \in {"returned", "drained"} /\ settled' # "no") => RerunSafeStep]_vars

\* C17, amended: once an ingest run has completed and left no raw item NEW,
\* saving the candidates already stored again and running ingest again adds
\* no raw-item, event or alert row and changes no alert's scope,
\* classification or id.
C17_RerunAfterDrainedRunChangesNothing ==
    [][(settled = "drained" /\ settled' # "no") => RerunSafeStep]_vars

\* a run left nothing NEW, the item without canonical id was saved again at
\* a later time and found NORMALIZED, and a second run returned with an
\* empty batch
C17_ResavedAndRerun ==
    /\ settled = "drained"
    /\ runs = 2
    /\ ipc = "returned"
    /\ fetched = <<>>
    /\ saved # None
    /\ ~saved.created
    /\ saved.candidate.canonical_id = ""
    /\ \E r \in raw_items :
          /\ r.raw_id = saved.raw_id
          /\ r.status = "NORMALIZED"
          /\ r.fetched_at_utc = 2
    /\ Cardinality(events) = 1
    /\ Cardinality(alerts) = 1

\* C18: when ingest is cancelled while an item is being processed, that
\* item is left in status NEW with no event and no alert change persisted
\* for it.
C18_CancelLeavesNoTrace ==
    (ipc = "cancelled" /\ cur # None)
        => /\ StatusOf(raw_items, cur.raw_id) = "NEW"
           /\ ~\E e \in events : e.raw_id = cur.raw_id
           /\ ~\E a \in alerts : a.root_event_id = cur.event.event_id

\* C21: for an event with facilities and non-ambiguous provenance the cap
\* follows the confidence ladder: at or above min_confidence_class_2 it is 2
\* with two high-impact factors, or with one and an impact score of at least
\* 5, and 1 otherwise; between min_confidence_class_1 and
\* min_confidence_class_2 it is 1 for trust tier 2 or 3 and 0 for tier 1;
\* below min_confidence_class_1 it is 0.
C21_ConfidenceLadder ==
    ( /\ cout # None
      /\ cin.event.facilities # <<>>
      /\ cin.event.facility_provenance # "CITY_STATE_AMBIGUOUS" )
        => LET conf == IF "facility" \in DOMAIN cin.event.link_confidence
                       THEN cin.event.link_confidence["facility"] ELSE 0
               factors == cout.high_impact_factors_count
           IN  cout.max_allowed_classification =
                  IF conf >= MinConfClass2
                  THEN IF factors >= 2 \/ (factors = 1 /\ cout.impact_score >= 5)
                       THEN 2 ELSE 1
                  ELSE IF conf >= MinConfClass1
                  THEN IF cin.event.trust_tier >= 2 THEN 1 ELSE 0
                  ELSE 0

\* confidence 0.75, the keyword as only high-impact factor and an impact
\* score of 5: cap 2; the same with a lower score is capped at 1 elsewhere
C21_SingleFactorHighScore ==
    /\ cout # None
    /\ cin.event.facilities # <<>>
    /\ cin.event.facility_provenance = "CITY_STATE"
    /\ "facility" \in DOMAIN cin.event.link_confidence
    /\ cin.event.link_confidence["facility"] = 75
    /\ cout.high_impact_factors_count = 1
    /\ cout.impact_score = 5
    /\ cout.max_allowed_classification = 2

\* C22: an event that carries no link_confidence has confidence 0 on every
\* channel: with or without facilities its max_allowed_class is 0, whatever
\* the impact score.
C22_MissingConfidenceCapZero ==
    (cout # None /\ DOMAIN cin.event.link_confidence = {})
        => cout.max_allowed_classification = 0

\* two facilities, lanes and shipments, clear provenance, a tier-3 source,
\* the keyword and the highest score, but no link confidence: cap 0
C22_LinkedEventWithoutConfidence ==
    /\ cout # None
    /\ DOMAIN cin.event.link_confidence = {}
    /\ Len(cin.event.facilities) = 2
    /\ cin.event.lanes # <<>>
    /\ cin.event.shipments # <<>>
    /\ cin.event.facility_provenance = "CITY_STATE"
    /\ cin.event.trust_tier = 3
    /\ cin.event.keyword
    /\ cout.impact_score = MaxImpactScore
    /\ cout.score_class = 2
    /\ cout.max_allowed_classification = 0

\* the impact scores the mapping is compared on, some below 0 and some above
\* the scores the scorer returns
ScoreRange == (0 - 2)..(MaxImpactScore + 4)

\* C23: map_score_to_classification gives 2 for a score of 4 or more, 1 for
\* 2 or 3 and 0 for any lower score, and never decreases when the score
\* grows.
C23_ScoreClass ==
    cout # None
        => /\ cout.score_class =
                 IF cout.impact_score >= 4 THEN 2
                 ELSE IF cout.impact_score \in {2, 3} THEN 1
                 ELSE 0
           /\ \A s \in ScoreRange : map_score_to_classification(s) \in {0, 1, 2}
           /\ \A s1, s2 \in ScoreRange :
                 s1 <= s2 => map_score_to_classification(s1)
                                <= map_score_to_classification(s2)

\* the score of 4, the lowest that maps to class 2
C23_FourIsImpactful ==
    /\ cout # None
    /\ cout.impact_score = 4
    /\ cout.score_class = 2

\* C25: under Policy A the final classification is
\* max(min(score_class, cap), floor), and whenever it exceeds the cap the
\* reasoning records that the source floor overrode the quality cap.
C25_PolicyAFloorIsFinal ==
    (cout # None /\ cout.applied_policy = "A")
        => /\ cout.classification =
                 Max(Min(cout.score_class, cout.max_allowed_classification),
                     cin.event.classification_floor)
           /\ cout.classification > cout.max_allowed_classification
                 => \E i \in DOMAIN cout.reasoning :
                       cout.reasoning[i] =
                          "Source policy minimum enforced (overrides quality cap)"

-----------------------------------------------------------------------------
(* Properties of the keyword detection (SpecDetect).                       *)

Words(text) == [i \in DOMAIN text |-> text[i].word]

\* the operational nouns of the incident patterns
OperationalNouns ==
    {"PLANT", "FACILITY", "WAREHOUSE", "PORT", "TERMINAL", "REFINERY", "DC",
     "RAIL", "TRUCK", "CARRIER"}

\* C26: _detect_high_impact_keywords reports a keyword only when it stands
\* with an operational noun or with a location, facility-id or date signal;
\* it reports nothing for "Fire sale at warehouse" and for "Strike price",
\* and reports FIRE for "Fire at warehouse facility", STRIKE for "Strike at
\* PLANT-01 facility" and a match for "Spill in Chicago, IL".
C26_KeywordNeedsContext ==
    fout # None
        => /\ Words(fin) = <<"FIRE", "SALE", "AT", "WAREHOUSE">> => ~fout.has_high_impact
           /\ Words(fin) = <<"STRIKE", "PRICE">> => ~fout.has_high_impact
           /\ Words(fin) = <<"FIRE", "AT", "WAREHOUSE", "FACILITY">>
                 => fout.has_high_impact /\ "FIRE" \in Range(fout.matched_patterns)
           /\ Words(fin) = <<"STRIKE", "AT", "PLANT", "FACILITY">>
                 => fout.has_high_impact /\ "STRIKE" \in Range(fout.matched_patterns)
           /\ Words(fin) = <<"SPILL", "IN", "CHICAGO">> => fout.has_high_impact
           /\ fout.has_high_impact
                 => \E i \in DOMAIN fin :
                       /\ fin[i].word \in {"SPILL", "STRIKE", "FIRE"}
                       /\ \/ \E j \in DOMAIN fin : j # i /\ fin[j].word \in OperationalNouns
                          \/ \E j \in DOMAIN fin : fin[j].signal # ""

-----------------------------------------------------------------------------
(* Properties of the impact scorer (SpecScore).                            *)

\* the points the rules R1..R7 give the event, each rule counted once
RulePoints(event) ==
    2 * BoolInt(\E i \in DOMAIN event.criticality_scores : event.criticality_scores[i] >= 7)
    + BoolInt(\E i \in DOMAIN event.volume_scores : event.volume_scores[i] >= 7)
    + BoolInt(event.priority_count > 0)
    + BoolInt(event.priority_count >= 5)
    + BoolInt(event.near_term_count > 0)
    + BoolInt(event.shipment_count >= 10)
    + BoolInt(event.event_type \in {"spill", "SPILL"} \/ event.text_keyword)

-----------------------------------------------------------------------------
(* Properties of the ingest query (SpecQuery).                             *)

\* the tiers a min_tier admits, by the ordering global > regional > local
AdmittedTiers(min_tier) ==
    CASE min_tier = <<"global">> -> {"global"}
      [] min_tier = <<"regional">> -> {"global", "regional"}
      [] OTHER -> {"global", "regional", "local"}

\* C29: the query returns only NEW rows; min_tier 'global' admits only
\* global rows, 'regional' global and regional rows, 'local' or no min_tier
\* all tiers; at most 'limit' rows are returned.
C29_NewRowsOfAdmittedTiersWithinLimit ==
    fout # None
        => /\ \A i \in DOMAIN fout.rows :
                /\ fout.rows[i] \in fin.rows
                /\ fout.rows[i].status = "NEW"
                /\ fout.rows[i].tier \in AdmittedTiers(fin.min_tier)
           /\ fin.since_hours = <<>> /\ fin.source_id = <<>> /\ fin.limit = <<>>
                => {fout.rows[i] : i \in DOMAIN fout.rows}
                     = {r \in fin.rows : r.status = "NEW" /\ r.tier \in AdmittedTiers(fin.min_tier)}
           /\ fin.limit # <<>> => Len(fout.rows) <= fin.limit[1]

\* the same for the calls whose limit is not 0: a limit of 0 is read as no
\* limit
C29_WithinPositiveLimit ==
    fout # None
        => /\ \A i \in DOMAIN fout.rows :
                /\ fout.rows[i] \in fin.rows
                /\ fout.rows[i].status = "NEW"
                /\ fout.rows[i].tier \in AdmittedTiers(fin.min_tier)
           /\ fin.since_hours = <<>> /\ fin.source_id = <<>> /\ fin.limit \in {<<>>, <<0>>}
                => {fout.rows[i] : i \in DOMAIN fout.rows}
                     = {r \in fin.rows : r.status = "NEW" /\ r.tier \in AdmittedTiers(fin.min_tier)}
           /\ fin.limit \notin {<<>>, <<0>>} => Len(fout.rows) <= fin.limit[1]


\* C30: the work on one item is one transaction: an item that ends FAILED
\* has left no event row, and no alert created or updated from its event,
\* in the tables.
C30_FailedItemLeftNothing ==
    \A r \in raw_items :
        r.raw_id \in errored /\ r.status = "FAILED"
            => /\ ~\E e \in events : e.raw_id = r.raw_id
               /\ ~\E e \in events, a \in alerts :
                     e.raw_id = r.raw_id /\ a.root_event_id = e.event_id

-----------------------------------------------------------------------------
(* Properties of link_to_network (SpecLink).                               *)

\* C28: two calls of link_to_network with equal event, equal inventory and
\* equal now return equal events, the same facilities, lanes and shipments
\* in the same order, whatever the wall-clock times of the two calls.
C28_SameNowSameLinks ==
    (fout # None /\ "second" \in DOMAIN fout)
        => /\ fout.second = fout.first
           /\ fout.second.shipments = fout.first.shipments

\* the second call is made twelve days after the first, with now still on
\* day 1: the shipment of day 1 is in the window of both calls
C28_CalledTwelveDaysLater ==
    /\ fout # None
    /\ "second" \in DOMAIN fout
    /\ fin.now = 30
    /\ fin.wall_clock = 0
    /\ fout.wall_clock = 300
    /\ fout.first.shipments = <<"SHIP-1">>
    /\ fout.second.shipments = <<"SHIP-1">>

-----------------------------------------------------------------------------
(* Properties of the pinned replay (SpecReplay).                           *)

\* the facility, lane and shipment sets of a scope
ScopeSets(scope) ==
    [facilities |-> Range(scope.facilities),
     lanes |-> Range(scope.lanes),
     shipments |-> Range(scope.shipments)]

C32_SummaryCountsEveryItemOnce ==
    ipc = "returned"
        => /\ stats.processed + stats.errors = Len(fetched)
           /\ stats.suppressed <= stats.processed
           /\ stats.alerts <= stats.events
           /\ errored \subseteq FetchedIds
           /\ stats.errors = Cardinality(errored)
           /\ stats.processed = Cardinality(FetchedIds \ errored)
           /\ stats.processed =
                 Cardinality({raw_id \in FetchedIds \ errored :
                                 StatusOf(raw_items, raw_id) \in {"NORMALIZED", "SUPPRESSED"}})

\* a batch of two returned with one item processed and the other failed
\* after its event was saved
C32_OneProcessedOneFailed ==
    /\ ipc = "returned"
    /\ Len(fetched) = 2
    /\ stats.processed = 1
    /\ stats.errors = 1
    /\ stats.events = 2
    /\ stats.alerts = 1


\* C34: the event id is the candidate's event_id, else its canonical_id,
\* else the raw item's raw_id, and only without all of these a generated
\* id: the event of a raw item stored without canonical id has that item's
\* raw_id as its id (raw ids are numbered, event ids are strings).
C34_EventIdFallsBackToRawId ==
    \A e \in events : \A r \in raw_items :
        e.raw_id = r.raw_id
            => e.event_id = IF r.canonical_id # "" THEN r.canonical_id ELSE ToString(r.raw_id)

-----------------------------------------------------------------------------
(* Properties of extract_event_type (SpecType).                            *)

\* the keyword groups in the order of the claim
TypeGroups ==
    <<[type |-> "WEATHER", keywords |-> weather_keywords],
      [type |-> "SPILL", keywords |-> spill_keywords],
      [type |-> "STRIKE", keywords |-> strike_keywords],
      [type |-> "CLOSURE", keywords |-> closure_keywords],
      [type |-> "REG", keywords |-> reg_keywords],
      [type |-> "RECALL", keywords |-> recall_keywords]>>

\* group g has a keyword in the title or the text, whatever the case
GroupOccurs(g) ==
    \E kw \in TypeGroups[g].keywords :
        \/ contains(lower(fin.text), kw)
        \/ contains(lower(fin.title) \o <<" ">> \o lower(fin.text), kw)

\* C33: the event type is that of the first group, in the order WEATHER,
\* SPILL, STRIKE, CLOSURE, REG, RECALL, that has a keyword in the text, and
\* OTHER when no group has one; a text with 'alert' and 'strike' is WEATHER.
C33_FirstGroupWins ==
    fout # None
        => /\ \A g \in DOMAIN TypeGroups :
                fout.event_type = TypeGroups[g].type
                    <=> (GroupOccurs(g) /\ \A h \in 1..(g - 1) : ~GroupOccurs(h))
           /\ fout.event_type = "OTHER" <=> \A g \in DOMAIN TypeGroups : ~GroupOccurs(g)
           /\ (contains(lower(fin.text), <<"a", "l", "e", "r", "t">>)
                 /\ contains(lower(fin.text), <<"s", "t", "r", "i", "k", "e">>))
                => fout.event_type = "WEATHER"

\* "Strike alert": a strike keyword before a weather keyword in the text
C33_StrikeAlertIsWeather ==
    /\ fout # None
    /\ fin.title = <<>>
    /\ fin.text = <<"S", "t", "r", "i", "k", "e", " ", "a", "l", "e", "r", "t", " ">>
    /\ fout.event_type = "WEATHER"

-----------------------------------------------------------------------------
(* Properties of the event store (SpecEvent).                              *)

\* C35: the store holds at most one row per event_id; saving an event whose
\* event_id is stored returns the stored row and changes none of its
\* fields, and saving an event without event_id raises and adds no row.
C35_OneRowPerEventId ==
    /\ [](\A e1, e2 \in events : e1.event_id = e2.event_id => e1 = e2)
    /\ [](\A e \in events : e.event_id # "")
    /\ [][/\ events \subseteq events'
          /\ fout'.event.event_id = ""
                => fout'.raised = "ValueError" /\ events' = events
          /\ fout'.event.event_id # ""
                => /\ fout'.raised = ""
                   /\ fout'.row \in events'
                   /\ fout'.row.event_id = fout'.event.event_id
          /\ \A stored \in events :
                stored.event_id = fout'.event.event_id
                    => events' = events /\ fout'.row = stored]_vars

\* EVT-1 was saved for raw item 1 and saved again for raw item 2 with
\* suppression: the row of raw item 1 came back
C35_SavedAgainWithOtherFields ==
    /\ fout # None
    /\ fout.event = [event_id |-> "EVT-1", raw_id |-> 2, suppressed |-> TRUE]
    /\ fout.row = [event_id |-> "EVT-1", raw_id |-> 1, suppressed |-> FALSE]
    /\ Cardinality(events) = 2


\* the place of a lane id in sorted order
LaneRank(lane_id) == IF lane_id = "LANE-1" THEN 1 ELSE 2

\* C36: after linking, the event's lanes are the lanes whose origin or
\* destination facility is one of the matched facilities, without
\* duplicates and in sorted order; an event without matched facility gets
\* no lanes and no shipments.
C36_LanesByOriginOrDestination ==
    (fout # None /\ fin.session)
        => LET linked == fout.first
               touching ==
                   {l \in Range(fin.inventory.lanes) :
                       \E i \in DOMAIN linked.facilities :
                           linked.facilities[i] \in {l.origin_facility_id, l.dest_facility_id}}
           IN  /\ Range(linked.lanes) = {l.lane_id : l \in touching}
               /\ \A i, j \in DOMAIN linked.lanes :
                     i < j => LaneRank(linked.lanes[i]) < LaneRank(linked.lanes[j])
               /\ linked.facilities = <<>>
                     => linked.lanes = <<>> /\ linked.shipments = <<>>


\* C38: after linking, the event carries at most max_shipments shipments,
\* and when more shipments matched than the query kept, the scope's
\* shipments_truncated flag is set.
C38_CappedAndFlagged ==
    fout # None
        => LET matching == shipments_on(fin.inventory,
                                        lanes_touching(fin.inventory, fout.event.facilities))
           IN  /\ Len(fout.event.shipments) <= fin.max_shipments
               /\ Len(matching) > fin.max_shipments => fout.scope.shipments_truncated

\* the event arrives without shipments: the shipments it carries after
\* linking are within max_shipments
C38_NewlyLinkedWithinCap ==
    (fout # None /\ fin.event.shipments = <<>>)
        => Len(fout.event.shipments) <= fin.max_shipments

\* C37: a shipment on a matched lane is linked exactly when its ship date
\* or its eta date lies within [today, today + days_ahead], or it has no
\* date that parses and its status is PENDING, IN_TRANSIT or SCHEDULED; a
\* shipment whose dates parse but lie outside the window is not linked.
C37_LinkedByDateElseByStatus ==
    (fout # None /\ fin.session)
        => LET day == today(fin.now, fin.wall_clock)
               on_matched_lane ==
                   {s \in Range(fin.inventory.shipments) :
                       s.lane_id \in Range(fout.first.lanes)}
           IN  \A s \in on_matched_lane :
                   s.shipment_id \in Range(fout.first.shipments)
                       <=> \/ in_window(s.ship_date, day)
                           \/ in_window(s.eta_date, day)
                           \/ /\ s.ship_date = <<>>
                              /\ s.eta_date = <<>>
                              /\ s.status \in {"PENDING", "IN_TRANSIT", "SCHEDULED"}

\* a shipment is linked exactly when a date is in the window or, no date
\* being in the window, its status is an active one
C37_LinkedByDateOrActiveStatus ==
    (fout # None /\ fin.session)
        => LET day == today(fin.now, fin.wall_clock)
               on_matched_lane ==
                   {s \in Range(fin.inventory.shipments) :
                       s.lane_id \in Range(fout.first.lanes)}
           IN  \A s \in on_matched_lane :
                   s.shipment_id \in Range(fout.first.shipments)
                       <=> \/ in_window(s.ship_date, day)
                           \/ in_window(s.eta_date, day)
                           \/ s.status \in {"PENDING", "IN_TRANSIT", "SCHEDULED"}

-----------------------------------------------------------------------------
(* Properties of the scope merge (SpecMerge).                              *)

\* the place of the first occurrence of an id in a list
FirstPlace(list, id) == CHOOSE i \in DOMAIN list : list[i] = id /\ \A j \in 1..(i - 1) : list[j] # id

\* merged holds the ids of previous and current once each, without null,
\* those of previous first, each group in its order
IsOrderedUnion(merged, previous, current) ==
    LET both == previous \o current
    IN  /\ Range(merged) = Range(both) \ {NullId}
        /\ \A i, j \in DOMAIN merged :
              i < j => FirstPlace(both, merged[i]) < FirstPlace(both, merged[j])

\* the result of a merge is what the claim says of existing and new
IsMergeOf(merged, existing, new) ==
    /\ IsOrderedUnion(merged.facilities,
                      IF existing = None THEN <<>> ELSE existing.facilities, new.facilities)
    /\ IsOrderedUnion(merged.lanes,
                      IF existing = None THEN <<>> ELSE existing.lanes, new.lanes)
    /\ IsOrderedUnion(merged.shipments,
                      IF existing = None THEN <<>> ELSE existing.shipments, new.shipments)
    /\ merged.shipments_total_linked =
           IF existing = None THEN new.shipments_total_linked
           ELSE Max(existing.shipments_total_linked, new.shipments_total_linked)
    /\ merged.shipments_truncated =
           ((existing # None /\ existing.shipments_truncated) \/ new.shipments_truncated)

\* C39: _merge_scope(existing, new) gives, for facilities, lanes and
\* shipments, the existing ids followed by the new ids not yet present, in
\* order, without duplicates and nulls, the larger of the two totals and the
\* OR of the two truncation flags; merging the same new scope once more
\* changes nothing.
C39_MergeIsOrderedUnionAndIdempotent ==
    fout # None
        => /\ IsMergeOf(fout.once, fin.existing, fin.new)
           /\ "twice" \in DOMAIN fout => fout.twice = fout.once

\* the same, for an alert row that has a stored scope
C39_StoredScopeMerged ==
    (fout # None /\ fin.existing # None)
        => /\ IsMergeOf(fout.once, fin.existing, fin.new)
           /\ "twice" \in DOMAIN fout => fout.twice = fout.once

-----------------------------------------------------------------------------
(* Properties of the migrations (SpecMigrate).                             *)

\* nothing of the file "before" is missing in the file "after": every
\* table, column and index is still there and no table has fewer rows
KeepsAll(before, after) ==
    /\ DOMAIN before.tables \subseteq DOMAIN after.tables
    /\ \A t \in DOMAIN before.tables :
          /\ before.tables[t] \subseteq after.tables[t]
          /\ before.rows[t] = after.rows[t]
    /\ before.indexes \subseteq after.indexes

\* C40: the migrations are additive and idempotent.  Whatever migrations
\* ran, in whatever order and however often, every table, column and row
\* of the file as found is still there, and running again a migration that
\* has run leaves the file as it is.
C40_AdditiveAndIdempotent ==
    /\ KeepsAll(fin.original, fout)
    /\ \A m \in Migrations : fin.ran[m] > 0 => migrate(m, fout).db = fout

\* an early file with a row in alerts and in events and no raw_items table,
\* after each migration ran twice: the columns and the table were added
C40_EarlyFileMigratedTwice ==
    /\ \A m \in Migrations : fin.ran[m] = 2
    /\ DOMAIN fin.original.tables = {"alerts", "events"}
    /\ fin.original.tables["alerts"] = AlertBaseColumns
    /\ fin.original.tables["events"] = EventBaseColumns
    /\ fin.original.rows["alerts"] = 1
    /\ fout.tables["alerts"] = AlertBaseColumns \cup AlertAdditions
    /\ fout.tables["events"] = EventBaseColumns \cup EventAdditions
    /\ fout.tables["raw_items"] = RawItemsColumns
    /\ fout.rows["alerts"] = 1
=============================================================================
